---- MODULE Spec2Model ----
(***************************************************************************)
(* Model of the token-analysis endpoint POST /api/analyze-anoncoin in its  *)
(* three server variants:                                                  *)
(*   "server"   src/server.mjs        (address input, suffix rule, AI, X)  *)
(*   "part_000" src/unnamed/part_000  (address input, suffix rule, AI)     *)
(*   "part_001" src/unnamed/part_001  (launchpad URL input, page scrape)   *)
(*                                                                         *)
(* Strings are sequences of one-character strings.  A JavaScript value     *)
(* that may be null/undefined is an option: <<>> is null, <<v>> is v.      *)
(***************************************************************************)
EXTENDS Integers, Sequences, FiniteSets, TLC

VARIABLES
    variant,      \* which server file handles the request
    openai,       \* TRUE iff OPENAI_API_KEY was set at startup (client non-null)
    pc,           \* position of the async handler / of the function driver
    input,        \* req.body.input (or req.body.url in part_001)
    pageFetch,    \* what the page fetch in flight can do: [kind, body]
    tokenAddress, \* addrInfo.address
    chainId,      \* addrInfo.chainIdGuess || "solana"
    dsJson,       \* parsed market-data body
    bestPair,     \* result of the reduce, an option
    holders,      \* holders value, an option
    aiRiskLevel,  \* aiRiskLevel local of the handler
    aiRiskText,   \* aiRiskText local of the handler
    riskRes,      \* value of the promise of generateRiskAnalysis, <<>> if rejected
    calls,        \* external calls issued so far, in order
    outcomes,     \* what each returned external call produced, in order
    failed,       \* the hard stage that failed, "" when none
    sent,         \* number of responses written to res
    res,          \* the response: [status, body]
    arg,          \* argument of the function under check (function drivers)
    ret           \* its result (function drivers)

vars == <<variant, openai, pc, input, pageFetch, tokenAddress, chainId, dsJson,
          bestPair, holders, aiRiskLevel, aiRiskText, riskRes, calls, outcomes,
          failed, sent, res, arg, ret>>

----------------------------------------------------------------------------
(* Options: JavaScript null / undefined against a present value.            *)

Null == <<>>

Some(v) == <<v>>

IsNull(o) == Len(o) = 0

Val(o) == o[1]

(* A value of the request body, [t, v]: t is its type ("missing" for an     *)
(* absent field, undefined or null; "str"; "number"; "boolean"; "array";    *)
(* "object"; "notext" for an object whose own toString property is not a    *)
(* function) and v the text toString() gives for it.                        *)

Str(v) == [t |-> "str", v |-> v]

\* the values that count as false in value || ""
isFalsy(value) ==
    \/ value.t = "missing"
    \/ value.t = "str" /\ value.v = <<>>
    \/ value.t = "number" /\ value.v \in { <<"0">>, <<"N","a","N">> }
    \/ value.t = "boolean" /\ value.v = <<"f","a","l","s","e">>

\* value.toString is a function
hasToString(value) == value.t \notin {"missing", "notext"}

----------------------------------------------------------------------------
(* Characters and the String.prototype methods the code calls.              *)

LowerLetters ==
    <<"a","b","c","d","e","f","g","h","i","j","k","l","m",
      "n","o","p","q","r","s","t","u","v","w","x","y","z">>

UpperLetters ==
    <<"A","B","C","D","E","F","G","H","I","J","K","L","M",
      "N","O","P","Q","R","S","T","U","V","W","X","Y","Z">>

Range(s) == { s[i] : i \in 1..Len(s) }

Digits == {"0","1","2","3","4","5","6","7","8","9"}

\* [a-fA-F0-9]
HexChars == Digits \cup {"a","b","c","d","e","f","A","B","C","D","E","F"}

\* [1-9A-HJ-NP-Za-km-z]
Base58Chars ==
    ((Digits \ {"0"}) \cup Range(UpperLetters) \cup Range(LowerLetters))
        \ {"I", "O", "l"}

\* what \s and trim() treat as white space, restricted to the characters used here
WhiteSpace == {" ", "\t", "\n", "\r"}

\* what the regular-expression dot does not match
LineTerminators == {"\n", "\r"}

toLowerChar(c) ==
    IF \E i \in 1..Len(UpperLetters) : UpperLetters[i] = c
    THEN LowerLetters[CHOOSE i \in 1..Len(UpperLetters) : UpperLetters[i] = c]
    ELSE c

toUpperChar(c) ==
    IF \E i \in 1..Len(LowerLetters) : LowerLetters[i] = c
    THEN UpperLetters[CHOOSE i \in 1..Len(LowerLetters) : LowerLetters[i] = c]
    ELSE c

toLowerCase(s) == [i \in 1..Len(s) |-> toLowerChar(s[i])]

toUpperCase(s) == [i \in 1..Len(s) |-> toUpperChar(s[i])]

endsWith(s, suf) ==
    /\ Len(s) >= Len(suf)
    /\ SubSeq(s, Len(s) - Len(suf) + 1, Len(s)) = suf

startsWith(s, pre) ==
    /\ Len(s) >= Len(pre)
    /\ SubSeq(s, 1, Len(pre)) = pre

\* String.prototype.trim
trim(s) ==
    LET keep == { i \in 1..Len(s) : s[i] \notin WhiteSpace } IN
    IF keep = {} THEN <<>>
    ELSE LET lo == CHOOSE i \in keep : \A j \in keep : i <= j
             hi == CHOOSE i \in keep : \A j \in keep : j <= i
         IN  SubSeq(s, lo, hi)

\* s.split("\n")[0]
firstLineOf(s) ==
    LET nl == { i \in 1..Len(s) : s[i] = "\n" } IN
    IF nl = {} THEN s
    ELSE SubSeq(s, 1, (CHOOSE i \in nl : \A j \in nl : i <= j) - 1)

Rep(c, n) == [i \in 1..n |-> c]

MinOf(S) == CHOOSE i \in S : \A j \in S : i <= j

MaxOf(S) == CHOOSE i \in S : \A j \in S : j <= i

----------------------------------------------------------------------------
(* Address extraction with the suffix rule (server.mjs, part_000).          *)

EvmHexLen == 40

SolMinLen == 32

SolMaxLen == 44

\* text.match(/0x[a-fA-F0-9]{40}/): the leftmost match, an option
matchEvm(text) ==
    LET starts == { i \in 1..Len(text) :
                      /\ i + 1 + EvmHexLen <= Len(text)
                      /\ text[i] = "0"
                      /\ text[i + 1] = "x"
                      /\ \A k \in 2..(1 + EvmHexLen) : text[i + k] \in HexChars }
    IN  IF starts = {} THEN Null
        ELSE Some(SubSeq(text, MinOf(starts), MinOf(starts) + 1 + EvmHexLen))

\* text.match(/[1-9A-HJ-NP-Za-km-z]{32,44}/): the leftmost match, taken greedily
matchSol(text) ==
    LET starts == { i \in 1..Len(text) :
                      /\ i + SolMinLen - 1 <= Len(text)
                      /\ \A k \in 0..(SolMinLen - 1) : text[i + k] \in Base58Chars }
    IN  IF starts = {} THEN Null
        ELSE LET i == MinOf(starts)
                 n == MaxOf({ m \in SolMinLen..SolMaxLen :
                                /\ i + m - 1 <= Len(text)
                                /\ \A k \in 0..(m - 1) : text[i + k] \in Base58Chars })
             IN  Some(SubSeq(text, i, i + n - 1))

SuffixDoge == <<"d","o","g","e">>

SuffixDub == <<"D","U","B">>

\* the suffix rule dropped: every address passes
isAllowedSuffixAny(address) == Len(address) >= 0

isAllowedSuffix(address) ==
    \/ endsWith(toLowerCase(address), SuffixDoge)
    \/ endsWith(toUpperCase(address), SuffixDub)

extractTokenAddressWithSuffix(raw) ==
    IF Len(raw) = 0 THEN Null
    ELSE LET text     == trim(raw)
             evmMatch == matchEvm(text)
             solMatch == matchSol(text)
         IN  IF ~IsNull(evmMatch) /\ isAllowedSuffix(Val(evmMatch))
             THEN Some([address |-> Val(evmMatch), chainIdGuess |-> "ethereum"])
             ELSE IF ~IsNull(solMatch) /\ isAllowedSuffix(Val(solMatch))
             THEN Some([address |-> Val(solMatch), chainIdGuess |-> "solana"])
             ELSE Null

----------------------------------------------------------------------------
(* Values the request variables hold while no request is being handled.     *)

NoResponse == [status |-> 0, body |-> [none |-> TRUE]]

\* no fetch in flight
NoFetch == [kind |-> "none", body |-> <<>>]

IdleRequest ==
    /\ openai = FALSE
    /\ input = [t |-> "missing", v |-> <<>>]
    /\ pageFetch = NoFetch
    /\ tokenAddress = <<>>
    /\ chainId = ""
    /\ dsJson = [isArray |-> FALSE, items |-> <<>>]
    /\ bestPair = Null
    /\ holders = Null
    /\ aiRiskLevel = <<>>
    /\ aiRiskText = <<>>
    /\ riskRes = Null
    /\ calls = <<>>
    /\ outcomes = <<>>
    /\ failed = ""
    /\ sent = 0
    /\ res = NoResponse

requestVars == <<openai, input, pageFetch, tokenAddress, chainId, dsJson, bestPair,
                 holders, aiRiskLevel, aiRiskText, riskRes, calls, outcomes, failed,
                 sent, res>>

----------------------------------------------------------------------------
(* Driver of extractTokenAddressWithSuffix over a family of input texts.    *)

\* how far past the 44-character limit the generated Base58 runs go
ExtraRun == 2

\* how far below the 32-character limit the generated Base58 runs go
ShortRun == 2

EvmDisallowed == <<"0","x">> \o Rep("0", EvmHexLen)

ExtractPrefixes ==
    { <<>>,
      <<"0","x">>,
      <<"C","A",":"," ">>,
      EvmDisallowed \o <<" ">>,
      Rep("2", SolMinLen) \o <<" ">> }

ExtractFillers == {"a", "z"}

ExtractSuffixes ==
    { SuffixDoge, <<"D","o","G","E">>, SuffixDub, <<"d","u","b">>,
      <<"d","o","g">>, <<"z","z">> }

ExtractTails == { <<>>, <<"1">>, <<" ","o","k">> }

ExtractRunLens == (SolMinLen - ShortRun)..(SolMaxLen + ExtraRun)

ExtractInputs ==
    { pre \o Rep(f, n - Len(suf)) \o suf \o post :
        pre \in ExtractPrefixes, f \in ExtractFillers, n \in ExtractRunLens,
        suf \in ExtractSuffixes, post \in ExtractTails }

InitExtract ==
    /\ IdleRequest
    /\ variant \in {"server", "part_000"}
    /\ pc = "call"
    /\ arg \in ExtractInputs
    /\ ret = Null

ExtractCall ==
    /\ pc = "call"
    /\ pc' = "return"
    /\ ret' = extractTokenAddressWithSuffix(arg)
    /\ UNCHANGED <<variant, arg, requestVars>>

NextExtract == ExtractCall

SpecExtract == InitExtract /\ [][NextExtract]_vars

(* Vocabulary of the extractor claims, stated on the text itself.           *)

\* an EVM-style address (0x + 40 hex characters) starts at position i of text
EvmAt(text, i) ==
    /\ i >= 1
    /\ i + 1 + EvmHexLen <= Len(text)
    /\ text[i] = "0"
    /\ text[i + 1] = "x"
    /\ \A k \in 2..(1 + EvmHexLen) : text[i + k] \in HexChars

EvmAddr(text, i) == SubSeq(text, i, i + 1 + EvmHexLen)

\* text[i..j] is a maximal run of Base58 characters
MaximalRun(text, i, j) ==
    /\ 1 <= i /\ i <= j /\ j <= Len(text)
    /\ \A k \in i..j : text[k] \in Base58Chars
    /\ (i = 1 \/ text[i - 1] \notin Base58Chars)
    /\ (j = Len(text) \/ text[j + 1] \notin Base58Chars)

\* ends, case-insensitively, in "doge" or "DUB"
EndsInAllowedSuffix(a) ==
    \/ endsWith(toLowerCase(a), SuffixDoge)
    \/ endsWith(toLowerCase(a), <<"d","u","b">>)

\* w occurs in text as a contiguous substring
OccursIn(w, text) ==
    \E i \in 1..Len(text) : i + Len(w) - 1 <= Len(text) /\ SubSeq(text, i, i + Len(w) - 1) = w

ExtractReturned == pc = "return" /\ arg \in ExtractInputs

\* the maximal Base58 runs of text, as <<first, last>> position pairs
MaximalRuns(text) ==
    { <<i, j>> \in (1..Len(text)) \X (1..Len(text)) : MaximalRun(text, i, j) }

AddressLengths == SolMinLen..SolMaxLen

(* C1 as stated: for every input string holding an EVM-style address, the   *)
(* extractor returns that address with chain guess "ethereum" when the      *)
(* address ends in an allowed suffix, and null when it does not.            *)
C1_AsStated ==
    ExtractReturned =>
        \A i \in 1..Len(arg) :
            EvmAt(arg, i) =>
                IF EndsInAllowedSuffix(EvmAddr(arg, i))
                THEN ret = Some([address |-> EvmAddr(arg, i), chainIdGuess |-> "ethereum"])
                ELSE ret = Null

(* C1 amended: for every input string holding an EVM-style address, the     *)
(* address is returned with chain guess "ethereum" if it ends in an allowed *)
(* suffix; if it does not, the extractor never returns it and never guesses *)
(* "ethereum": the result is null, or it is a Base58 substring of the input *)
(* of length 32..44 that ends in an allowed suffix, with chain guess        *)
(* "solana"; and it is null when the input has no Base58 run of 32 or more. *)
C1_EvmDisallowedFallsThrough ==
    (ExtractReturned /\ \E i \in 1..Len(arg) : EvmAt(arg, i)) =>
        /\ \A i \in 1..Len(arg) :
              (EvmAt(arg, i) /\ EndsInAllowedSuffix(EvmAddr(arg, i))) =>
                  ret = Some([address |-> EvmAddr(arg, i), chainIdGuess |-> "ethereum"])
        /\ (\A i \in 1..Len(arg) :
              EvmAt(arg, i) => ~EndsInAllowedSuffix(EvmAddr(arg, i))) =>
              \/ ret = Null
              \/ /\ Val(ret).chainIdGuess = "solana"
                 /\ Len(Val(ret).address) \in AddressLengths
                 /\ Range(Val(ret).address) \subseteq Base58Chars
                 /\ EndsInAllowedSuffix(Val(ret).address)
                 /\ OccursIn(Val(ret).address, arg)
                 /\ \A i \in 1..Len(arg) : EvmAt(arg, i) => Val(ret).address # EvmAddr(arg, i)
        /\ (\A r \in MaximalRuns(arg) : r[2] - r[1] + 1 < SolMinLen) => ret = Null

\* an input with an EVM-style address of disallowed suffix, for which the
\* extractor still returned an address
C1_Witness ==
    /\ ExtractReturned
    /\ \E i \in 1..Len(arg) : EvmAt(arg, i) /\ ~EndsInAllowedSuffix(EvmAddr(arg, i))
    /\ ret # Null
    /\ Val(ret).chainIdGuess = "solana"

(* C2 as stated: every maximal Base58 run of length 32..44 of the input     *)
(* that ends case-insensitively in "doge" or "DUB" is returned with chain   *)
(* guess "solana", and a Base58 run of length 31 or 45 never produces the   *)
(* returned address.                                                        *)
C2_AsStated ==
    ExtractReturned =>
        \A r \in MaximalRuns(arg) :
            LET run == SubSeq(arg, r[1], r[2]) IN
            /\ (Len(run) \in AddressLengths /\ EndsInAllowedSuffix(run)) =>
                  ret = Some([address |-> run, chainIdGuess |-> "solana"])
            /\ Len(run) \in {SolMinLen - 1, SolMaxLen + 1} =>
                  (ret = Null \/ ~OccursIn(Val(ret).address, run))

----------------------------------------------------------------------------
(* Best-pair selection over the market-data array.                          *)
(* A pair is [id, liquidity]: id is its position in the array, liquidity    *)
(* is an option of [usd], usd an option of a number.                        *)

Variants == {"server", "part_000", "part_001"}

\* p.liquidity?.usd || 0
liquidityUsdOr0(p) ==
    IF IsNull(p.liquidity) THEN 0
    ELSE IF IsNull(Val(p.liquidity).usd) THEN 0
    ELSE Val(Val(p.liquidity).usd)

\* server.mjs, part_000: (best, p) => liq > (best?.liquidity?.usd || 0) ? p : best
reduceStepServer(best, p) ==
    LET liq     == liquidityUsdOr0(p)
        bestLiq == IF IsNull(best) THEN 0 ELSE liquidityUsdOr0(Val(best))
    IN  IF liq > bestLiq THEN Some(p) ELSE best

\* part_001: if (!best) return p; return curLiq > bestLiq ? p : best
reduceStepUrl(best, p) ==
    IF IsNull(best) THEN Some(p)
    ELSE IF liquidityUsdOr0(p) > liquidityUsdOr0(Val(best)) THEN Some(p) ELSE best

reduceStep(v, best, p) ==
    IF v = "part_001" THEN reduceStepUrl(best, p) ELSE reduceStepServer(best, p)

RECURSIVE reduceFrom(_, _, _, _)
\* Array.prototype.reduce from position i on, with accumulator best
reduceFrom(v, pairs, i, best) ==
    IF i > Len(pairs) THEN best
    ELSE reduceFrom(v, pairs, i + 1, reduceStep(v, best, pairs[i]))

\* dsJson.reduce(..., null)
bestPairOf(v, pairs) == reduceFrom(v, pairs, 1, Null)

(* Driver of the best-pair selection.                                       *)

\* longest market-data array generated
MaxPairs == 3

LiquidityAbsent == Null

LiquidityNoUsd == Some([usd |-> Null])

LiquidityOf(n) == Some([usd |-> Some(n)])

LiquidityValues ==
    { LiquidityAbsent, LiquidityNoUsd, LiquidityOf(0), LiquidityOf(50),
      LiquidityOf(100), LiquidityOf(300) }

PairArrays ==
    UNION { { [i \in 1..n |-> [id |-> i, liquidity |-> f[i]]] :
                f \in [1..n -> LiquidityValues] } : n \in 1..MaxPairs }

InitBestPair ==
    /\ IdleRequest
    /\ variant \in Variants
    /\ pc = "call"
    /\ arg \in PairArrays
    /\ ret = Null

BestPairCall ==
    /\ pc = "call"
    /\ pc' = "return"
    /\ ret' = bestPairOf(variant, arg)
    /\ UNCHANGED <<variant, arg, requestVars>>

NextBestPair == BestPairCall

SpecBestPair == InitBestPair /\ [][NextBestPair]_vars

(* C3 as stated: in every variant, for every non-empty array of pairs, the  *)
(* selection yields an element of the array whose liquidity.usd (missing    *)
(* as 0) is the maximum of the array, the first such in array order.        *)
C3_AsStated ==
    (pc = "return" /\ arg \in PairArrays) =>
        /\ ret # Null
        /\ \E i \in 1..Len(arg) :
              /\ Val(ret) = arg[i]
              /\ \A j \in 1..Len(arg) : liquidityUsdOr0(arg[j]) <= liquidityUsdOr0(arg[i])
              /\ \A j \in 1..(i - 1) : liquidityUsdOr0(arg[j]) < liquidityUsdOr0(arg[i])

----------------------------------------------------------------------------
(* The risk narrative generator: generateRiskAnalysis.                      *)

RiskLevelPrefix == <<"R","I","S","K","_","L","E","V","E","L",":">>

Unknown == <<"u","n","k","n","o","w","n">>

\* the fixed notices, each kept as a single symbol
NoticeMissingKey == <<"AI risk analysis not available (missing OPENAI_API_KEY).">>

NoticeUnavailable(v) ==
    IF v = "server"
    THEN <<"AI risk analysis unavailable. Configure OPENAI_API_KEY on the server to enable muchdogeagent risk brief.">>
    ELSE <<"AI risk analysis unavailable. Configure OPENAI_API_KEY on the server to enable DogeOS risk brief.">>

\* the number of leading white-space characters of r
leadingSpace(r) ==
    IF \A i \in 1..Len(r) : r[i] \in WhiteSpace THEN Len(r)
    ELSE MinOf({ i \in 1..Len(r) : r[i] \notin WhiteSpace }) - 1

\* \s*(.+)$ on r: the capture group, an option.  \s* is greedy and gives
\* characters back until (.+)$ can match: a non-empty rest without line terminator
matchValue(r) ==
    LET ks == { k \in 0..leadingSpace(r) :
                  /\ k < Len(r)
                  /\ \A i \in (k + 1)..Len(r) : r[i] \notin LineTerminators }
    IN  IF ks = {} THEN Null ELSE Some(SubSeq(r, MaxOf(ks) + 1, Len(r)))

\* firstLine.match(/RISK_LEVEL:\s*(.+)$/i): the capture group m[1], an option
matchRiskLevel(firstLine) ==
    LET n      == Len(RiskLevelPrefix)
        starts == { i \in 1..Len(firstLine) :
                      /\ i + n - 1 <= Len(firstLine)
                      /\ toUpperCase(SubSeq(firstLine, i, i + n - 1)) = RiskLevelPrefix
                      /\ ~IsNull(matchValue(SubSeq(firstLine, i + n, Len(firstLine)))) }
    IN  IF starts = {} THEN Null
        ELSE matchValue(SubSeq(firstLine, MinOf(starts) + n, Len(firstLine)))

\* lines 146-154: from resp.choices?.[0]?.message?.content to { riskLevel, text }
parseRiskLevel(content) ==
    LET text      == IF IsNull(content) THEN <<>> ELSE trim(Val(content))
        firstLine == firstLineOf(text)
        m         == matchRiskLevel(firstLine)
    IN  [riskLevel |-> IF IsNull(m) THEN Unknown ELSE toLowerCase(trim(Val(m))),
         text      |-> text]

(* Driver of the first-line parse.                                          *)

RiskHeads ==
    { RiskLevelPrefix,
      <<"r","i","s","k","_","l","e","v","e","l",":">>,
      <<"*","*">> \o RiskLevelPrefix,
      <<"R","i","s","k",":">>,
      <<>> }

RiskGaps == { <<>>, <<" ">>, <<" "," ">> }

RiskValues ==
    { <<"L","o","w">>, <<"M","e","d","i","u","m">>, <<"H","i","g","h">>,
      <<"U","n","k","n","o","w","n">>, <<"L","O","W">>,
      <<"C","r","i","t","i","c","a","l">>, <<"L","o","w"," ","|"," ","H","i","g","h">>,
      <<"L","o","w","\r">>, <<>> }

RiskRests == { <<>>, <<"\n","\n","K","e","y"," ","r","e","d"," ","f","l","a","g","s",":">> }

ModelTexts ==
    { h \o g \o v \o r : h \in RiskHeads, g \in RiskGaps, v \in RiskValues, r \in RiskRests }

ModelContents == { Null } \cup { Some(t) : t \in ModelTexts }

InitRisk ==
    /\ IdleRequest
    /\ variant \in {"server", "part_000"}
    /\ pc = "call"
    /\ arg \in ModelContents
    /\ ret = Null

RiskCall ==
    /\ pc = "call"
    /\ pc' = "return"
    /\ ret' = parseRiskLevel(arg)
    /\ UNCHANGED <<variant, arg, requestVars>>

NextRisk == RiskCall

SpecRisk == InitRisk /\ [][NextRisk]_vars

RiskLevels ==
    { <<"l","o","w">>, <<"m","e","d","i","u","m">>, <<"h","i","g","h">>, Unknown }

(* C10 as stated: for every model response text the riskLevel produced by   *)
(* the narrative generator is one of "low", "medium", "high", "unknown".    *)
C10_AsStated ==
    (pc = "return" /\ arg \in ModelContents) => ret.riskLevel \in RiskLevels

----------------------------------------------------------------------------
(* part_001: the launchpad URL check and the page scrape.                   *)

Letters == Range(LowerLetters) \cup Range(UpperLetters)

SchemeChars == Letters \cup Digits \cup {"+", "-", "."}

SchemeHttp == <<"h","t","t","p">>

SchemeHttps == <<"h","t","t","p","s">>

SchemeFile == <<"f","i","l","e">>

SchemeData == <<"d","a","t","a">>

\* the special schemes of the URL parser
SpecialSchemes ==
    { SchemeHttp, SchemeHttps, <<"w","s">>, <<"w","s","s">>, <<"f","t","p">>, SchemeFile }

\* the default port of a special scheme, -1 where there is none
defaultPort(scheme) ==
    IF scheme \in {SchemeHttp, <<"w","s">>} THEN 80
    ELSE IF scheme \in {SchemeHttps, <<"w","s","s">>} THEN 443
    ELSE IF scheme = <<"f","t","p">> THEN 21
    ELSE -1

\* the printable ASCII characters, U+0020 to U+007E in order (U+0060, which a
\* string of this notation cannot hold, is the symbol "U+0060")
AsciiPrintable ==
    <<" ","!","\"","#","$","%","&","'","(",")","*","+",",","-",".","/",
      "0","1","2","3","4","5","6","7","8","9",":",";","<","=",">","?",
      "@","A","B","C","D","E","F","G","H","I","J","K","L","M","N","O",
      "P","Q","R","S","T","U","V","W","X","Y","Z","[","\\","]","^","_",
      "U+0060","a","b","c","d","e","f","g","h","i","j","k","l","m","n","o",
      "p","q","r","s","t","u","v","w","x","y","z","{","|","}","~">>

\* the code point of a character
codeOf(ch) ==
    IF ch = "\t" THEN 9
    ELSE IF ch = "\n" THEN 10
    ELSE IF ch = "\r" THEN 13
    ELSE 31 + (CHOOSE i \in 1..Len(AsciiPrintable) : AsciiPrintable[i] = ch)

\* the character of a printable ASCII code point
charOf(code) == AsciiPrintable[code - 31]

codesOf(s) == [i \in 1..Len(s) |-> codeOf(s[i])]

charsOf(codes) == [i \in 1..Len(codes) |-> charOf(codes[i])]

\* forbidden host code points (U+0000 cannot be written in a request text)
ForbiddenHostChars ==
    {"\t", "\n", "\r", " ", "#", "/", ":", "<", ">", "?", "@", "[", "\\", "]", "^", "|"}

\* forbidden domain code points: the forbidden host code points, the C0
\* controls, "%" and U+007F
ForbiddenDomainCodes ==
    { codeOf(ch) : ch \in ForbiddenHostChars } \cup (0..31) \cup {37, 127}

AnoncoinHost == <<"a","n","o","n","c","o","i","n",".","i","t">>

\* the position of the first character of s from position i on that lies in S,
\* Len(s) + 1 when there is none
firstIn(s, i, S) ==
    LET hits == { k \in i..Len(s) : s[k] \in S } IN
    IF hits = {} THEN Len(s) + 1 ELSE MinOf(hits)

\* the position of the first character of s from position i on that lies
\* outside S, Len(s) + 1 when there is none
firstNotIn(s, i, S) ==
    LET hits == { k \in i..Len(s) : s[k] \notin S } IN
    IF hits = {} THEN Len(s) + 1 ELSE MinOf(hits)

\* F applied to the value of v, which is computed once
Strict(v, F(_)) == CHOOSE r \in { F(x) : x \in {v} } : TRUE

\* the state a loop ends in: step(st, k) for k = 1, 2, ..., n in turn, from
\* the state st0 on (the steps are taken half by half)
Walk(step(_, _), st0, n) ==
    LET RECURSIVE run(_, _, _)
        \* the steps lo, ..., lo + 2^bits - 1
        run(st, lo, bits) ==
            IF lo > n THEN st
            ELSE IF bits = 0 THEN step(st, lo)
            ELSE CHOOSE r \in { run(half, lo + 2^(bits - 1), bits - 1)
                                  : half \in { run(st, lo, bits - 1) } } : TRUE
    IN  run(st0, 1, CHOOSE b \in 0..30 : 2^b >= n)

\* s strictly split on sep
splitOn(s, sep) ==
    Strict(s, LAMBDA t :
    Strict(SelectSeq([k \in 1..Len(t) |-> k], LAMBDA k : t[k] = sep), LAMBDA cuts :
        Walk(LAMBDA acc, j :
                 Append(acc, SubSeq(t, IF j = 1 THEN 1 ELSE cuts[j - 1] + 1,
                                       IF j > Len(cuts) THEN Len(t) ELSE cuts[j] - 1)),
             <<>>, Len(cuts) + 1)))

joinWith(parts, sep) ==
    Strict(parts, LAMBDA ps :
        Walk(LAMBDA acc, k : IF k = 1 THEN ps[1] ELSE acc \o <<sep>> \o ps[k],
             <<>>, Len(ps)))

\* the value of a hexadecimal digit
hexValue(ch) ==
    IF ch \in Digits THEN codeOf(ch) - 48 ELSE codeOf(toLowerChar(ch)) - 87

\* the digit of a value below 16, lower case
hexChar(d) == IF d < 10 THEN charOf(48 + d) ELSE charOf(87 + d)

RECURSIVE decimalOf(_)
\* the shortest decimal numeral of n
decimalOf(n) ==
    IF n < 10 THEN <<hexChar(n)>> ELSE decimalOf(n \div 10) \o <<hexChar(n % 10)>>

RECURSIVE hexOf(_)
\* the shortest lower-case hexadecimal numeral of n
hexOf(n) ==
    IF n < 16 THEN <<hexChar(n)>> ELSE hexOf(n \div 16) \o <<hexChar(n % 16)>>

\* percent-decode: the bytes of a text; "%" and two hexadecimal digits give
\* one byte, any other character its own code (st = [next, out])
percentDecode(s) ==
    Strict(s, LAMBDA t :
        Walk(LAMBDA st, k :
                 IF k < st.next THEN st
                 ELSE IF /\ t[k] = "%"
                         /\ k + 2 <= Len(t)
                         /\ t[k + 1] \in HexChars
                         /\ t[k + 2] \in HexChars
                 THEN [next |-> k + 3,
                       out  |-> Append(st.out, (16 * hexValue(t[k + 1])) + hexValue(t[k + 2]))]
                 ELSE [next |-> k + 1, out |-> Append(st.out, codeOf(t[k]))],
             [next |-> 1, out |-> <<>>], Len(t)).out)

(* Unicode data and normalization for the host of a URL.  The tables are    *)
(* those of Unicode 15.0.                                                   *)

\* the IDNA mapping table of UTS #46 (Unicode 15.0) without the STD3 rules and
\* with the deviations valid: a row is the first code point of a range, its
\* status ("V" valid, "I" ignored, "X" disallowed, "M" mapped) and, for a mapped
\* code point, what it becomes; a range ends where the next row begins
IdnaMappingTable ==
    <<
        <<0, "V">>, <<65, "M", <<97>>>>, <<66, "M", <<98>>>>, <<67, "M", <<99>>>>,
        <<68, "M", <<100>>>>, <<69, "M", <<101>>>>, <<70, "M", <<102>>>>, <<71, "M", <<103>>>>,
        <<72, "M", <<104>>>>, <<73, "M", <<105>>>>, <<74, "M", <<106>>>>, <<75, "M", <<107>>>>,
        <<76, "M", <<108>>>>, <<77, "M", <<109>>>>, <<78, "M", <<110>>>>, <<79, "M", <<111>>>>,
        <<80, "M", <<112>>>>, <<81, "M", <<113>>>>, <<82, "M", <<114>>>>, <<83, "M", <<115>>>>,
        <<84, "M", <<116>>>>, <<85, "M", <<117>>>>, <<86, "M", <<118>>>>, <<87, "M", <<119>>>>,
        <<88, "M", <<120>>>>, <<89, "M", <<121>>>>, <<90, "M", <<122>>>>, <<91, "V">>,
        <<128, "X">>, <<160, "M", <<32>>>>, <<161, "V">>, <<168, "M", <<32, 776>>>>,
        <<169, "V">>, <<170, "M", <<97>>>>, <<171, "V">>, <<173, "I">>, <<174, "V">>,
        <<175, "M", <<32, 772>>>>, <<176, "V">>, <<178, "M", <<50>>>>, <<179, "M", <<51>>>>,
        <<180, "M", <<32, 769>>>>, <<181, "M", <<956>>>>, <<182, "V">>,
        <<184, "M", <<32, 807>>>>, <<185, "M", <<49>>>>, <<186, "M", <<111>>>>, <<187, "V">>,
        <<188, "M", <<49, 8260, 52>>>>, <<189, "M", <<49, 8260, 50>>>>,
        <<190, "M", <<51, 8260, 52>>>>, <<191, "V">>, <<192, "M", <<224>>>>,
        <<193, "M", <<225>>>>, <<194, "M", <<226>>>>, <<195, "M", <<227>>>>,
        <<196, "M", <<228>>>>, <<197, "M", <<229>>>>, <<198, "M", <<230>>>>,
        <<199, "M", <<231>>>>, <<200, "M", <<232>>>>, <<201, "M", <<233>>>>,
        <<202, "M", <<234>>>>, <<203, "M", <<235>>>>, <<204, "M", <<236>>>>,
        <<205, "M", <<237>>>>, <<206, "M", <<238>>>>, <<207, "M", <<239>>>>,
        <<208, "M", <<240>>>>, <<209, "M", <<241>>>>, <<210, "M", <<242>>>>,
        <<211, "M", <<243>>>>, <<212, "M", <<244>>>>, <<213, "M", <<245>>>>,
        <<214, "M", <<246>>>>, <<215, "V">>, <<216, "M", <<248>>>>, <<217, "M", <<249>>>>,
        <<218, "M", <<250>>>>, <<219, "M", <<251>>>>, <<220, "M", <<252>>>>,
        <<221, "M", <<253>>>>, <<222, "M", <<254>>>>, <<223, "V">>, <<256, "M", <<257>>>>,
        <<257, "V">>, <<258, "M", <<259>>>>, <<259, "V">>, <<260, "M", <<261>>>>, <<261, "V">>,
        <<262, "M", <<263>>>>, <<263, "V">>, <<264, "M", <<265>>>>, <<265, "V">>,
        <<266, "M", <<267>>>>, <<267, "V">>, <<268, "M", <<269>>>>, <<269, "V">>,
        <<270, "M", <<271>>>>, <<271, "V">>, <<272, "M", <<273>>>>, <<273, "V">>,
        <<274, "M", <<275>>>>, <<275, "V">>, <<276, "M", <<277>>>>, <<277, "V">>,
        <<278, "M", <<279>>>>, <<279, "V">>, <<280, "M", <<281>>>>, <<281, "V">>,
        <<282, "M", <<283>>>>, <<283, "V">>, <<284, "M", <<285>>>>, <<285, "V">>,
        <<286, "M", <<287>>>>, <<287, "V">>, <<288, "M", <<289>>>>, <<289, "V">>,
        <<290, "M", <<291>>>>, <<291, "V">>, <<292, "M", <<293>>>>, <<293, "V">>,
        <<294, "M", <<295>>>>, <<295, "V">>, <<296, "M", <<297>>>>, <<297, "V">>,
        <<298, "M", <<299>>>>, <<299, "V">>, <<300, "M", <<301>>>>, <<301, "V">>,
        <<302, "M", <<303>>>>, <<303, "V">>, <<304, "M", <<105, 775>>>>, <<305, "V">>,
        <<306, "M", <<105, 106>>>>, <<308, "M", <<309>>>>, <<309, "V">>, <<310, "M", <<311>>>>,
        <<311, "V">>, <<313, "M", <<314>>>>, <<314, "V">>, <<315, "M", <<316>>>>, <<316, "V">>,
        <<317, "M", <<318>>>>, <<318, "V">>, <<319, "M", <<108, 183>>>>, <<321, "M", <<322>>>>,
        <<322, "V">>, <<323, "M", <<324>>>>, <<324, "V">>, <<325, "M", <<326>>>>, <<326, "V">>,
        <<327, "M", <<328>>>>, <<328, "V">>, <<329, "M", <<700, 110>>>>, <<330, "M", <<331>>>>,
        <<331, "V">>, <<332, "M", <<333>>>>, <<333, "V">>, <<334, "M", <<335>>>>, <<335, "V">>,
        <<336, "M", <<337>>>>, <<337, "V">>, <<338, "M", <<339>>>>, <<339, "V">>,
        <<340, "M", <<341>>>>, <<341, "V">>, <<342, "M", <<343>>>>, <<343, "V">>,
        <<344, "M", <<345>>>>, <<345, "V">>, <<346, "M", <<347>>>>, <<347, "V">>,
        <<348, "M", <<349>>>>, <<349, "V">>, <<350, "M", <<351>>>>, <<351, "V">>,
        <<352, "M", <<353>>>>, <<353, "V">>, <<354, "M", <<355>>>>, <<355, "V">>,
        <<356, "M", <<357>>>>, <<357, "V">>, <<358, "M", <<359>>>>, <<359, "V">>,
        <<360, "M", <<361>>>>, <<361, "V">>, <<362, "M", <<363>>>>, <<363, "V">>,
        <<364, "M", <<365>>>>, <<365, "V">>, <<366, "M", <<367>>>>, <<367, "V">>,
        <<368, "M", <<369>>>>, <<369, "V">>, <<370, "M", <<371>>>>, <<371, "V">>,
        <<372, "M", <<373>>>>, <<373, "V">>, <<374, "M", <<375>>>>, <<375, "V">>,
        <<376, "M", <<255>>>>, <<377, "M", <<378>>>>, <<378, "V">>, <<379, "M", <<380>>>>,
        <<380, "V">>, <<381, "M", <<382>>>>, <<382, "V">>, <<383, "M", <<115>>>>, <<384, "V">>,
        <<385, "M", <<595>>>>, <<386, "M", <<387>>>>, <<387, "V">>, <<388, "M", <<389>>>>,
        <<389, "V">>, <<390, "M", <<596>>>>, <<391, "M", <<392>>>>, <<392, "V">>,
        <<393, "M", <<598>>>>, <<394, "M", <<599>>>>, <<395, "M", <<396>>>>, <<396, "V">>,
        <<398, "M", <<477>>>>, <<399, "M", <<601>>>>, <<400, "M", <<603>>>>,
        <<401, "M", <<402>>>>, <<402, "V">>, <<403, "M", <<608>>>>, <<404, "M", <<611>>>>,
        <<405, "V">>, <<406, "M", <<617>>>>, <<407, "M", <<616>>>>, <<408, "M", <<409>>>>,
        <<409, "V">>, <<412, "M", <<623>>>>, <<413, "M", <<626>>>>, <<414, "V">>,
        <<415, "M", <<629>>>>, <<416, "M", <<417>>>>, <<417, "V">>, <<418, "M", <<419>>>>,
        <<419, "V">>, <<420, "M", <<421>>>>, <<421, "V">>, <<422, "M", <<640>>>>,
        <<423, "M", <<424>>>>, <<424, "V">>, <<425, "M", <<643>>>>, <<426, "V">>,
        <<428, "M", <<429>>>>, <<429, "V">>, <<430, "M", <<648>>>>, <<431, "M", <<432>>>>,
        <<432, "V">>, <<433, "M", <<650>>>>, <<434, "M", <<651>>>>, <<435, "M", <<436>>>>,
        <<436, "V">>, <<437, "M", <<438>>>>, <<438, "V">>, <<439, "M", <<658>>>>,
        <<440, "M", <<441>>>>, <<441, "V">>, <<444, "M", <<445>>>>, <<445, "V">>,
        <<452, "M", <<100, 382>>>>, <<455, "M", <<108, 106>>>>, <<458, "M", <<110, 106>>>>,
        <<461, "M", <<462>>>>, <<462, "V">>, <<463, "M", <<464>>>>, <<464, "V">>,
        <<465, "M", <<466>>>>, <<466, "V">>, <<467, "M", <<468>>>>, <<468, "V">>,
        <<469, "M", <<470>>>>, <<470, "V">>, <<471, "M", <<472>>>>, <<472, "V">>,
        <<473, "M", <<474>>>>, <<474, "V">>, <<475, "M", <<476>>>>, <<476, "V">>,
        <<478, "M", <<479>>>>, <<479, "V">>, <<480, "M", <<481>>>>, <<481, "V">>,
        <<482, "M", <<483>>>>, <<483, "V">>, <<484, "M", <<485>>>>, <<485, "V">>,
        <<486, "M", <<487>>>>, <<487, "V">>, <<488, "M", <<489>>>>, <<489, "V">>,
        <<490, "M", <<491>>>>, <<491, "V">>, <<492, "M", <<493>>>>, <<493, "V">>,
        <<494, "M", <<495>>>>, <<495, "V">>, <<497, "M", <<100, 122>>>>, <<500, "M", <<501>>>>,
        <<501, "V">>, <<502, "M", <<405>>>>, <<503, "M", <<447>>>>, <<504, "M", <<505>>>>,
        <<505, "V">>, <<506, "M", <<507>>>>, <<507, "V">>, <<508, "M", <<509>>>>, <<509, "V">>,
        <<510, "M", <<511>>>>, <<511, "V">>, <<512, "M", <<513>>>>, <<513, "V">>,
        <<514, "M", <<515>>>>, <<515, "V">>, <<516, "M", <<517>>>>, <<517, "V">>,
        <<518, "M", <<519>>>>, <<519, "V">>, <<520, "M", <<521>>>>, <<521, "V">>,
        <<522, "M", <<523>>>>, <<523, "V">>, <<524, "M", <<525>>>>, <<525, "V">>,
        <<526, "M", <<527>>>>, <<527, "V">>, <<528, "M", <<529>>>>, <<529, "V">>,
        <<530, "M", <<531>>>>, <<531, "V">>, <<532, "M", <<533>>>>, <<533, "V">>,
        <<534, "M", <<535>>>>, <<535, "V">>, <<536, "M", <<537>>>>, <<537, "V">>,
        <<538, "M", <<539>>>>, <<539, "V">>, <<540, "M", <<541>>>>, <<541, "V">>,
        <<542, "M", <<543>>>>, <<543, "V">>, <<544, "M", <<414>>>>, <<545, "V">>,
        <<546, "M", <<547>>>>, <<547, "V">>, <<548, "M", <<549>>>>, <<549, "V">>,
        <<550, "M", <<551>>>>, <<551, "V">>, <<552, "M", <<553>>>>, <<553, "V">>,
        <<554, "M", <<555>>>>, <<555, "V">>, <<556, "M", <<557>>>>, <<557, "V">>,
        <<558, "M", <<559>>>>, <<559, "V">>, <<560, "M", <<561>>>>, <<561, "V">>,
        <<562, "M", <<563>>>>, <<563, "V">>, <<570, "M", <<11365>>>>, <<571, "M", <<572>>>>,
        <<572, "V">>, <<573, "M", <<410>>>>, <<574, "M", <<11366>>>>, <<575, "V">>,
        <<577, "M", <<578>>>>, <<578, "V">>, <<579, "M", <<384>>>>, <<580, "M", <<649>>>>,
        <<581, "M", <<652>>>>, <<582, "M", <<583>>>>, <<583, "V">>, <<584, "M", <<585>>>>,
        <<585, "V">>, <<586, "M", <<587>>>>, <<587, "V">>, <<588, "M", <<589>>>>, <<589, "V">>,
        <<590, "M", <<591>>>>, <<591, "V">>, <<688, "M", <<104>>>>, <<689, "M", <<614>>>>,
        <<690, "M", <<106>>>>, <<691, "M", <<114>>>>, <<692, "M", <<633>>>>,
        <<693, "M", <<635>>>>, <<694, "M", <<641>>>>, <<695, "M", <<119>>>>,
        <<696, "M", <<121>>>>, <<697, "V">>, <<728, "M", <<32, 774>>>>,
        <<729, "M", <<32, 775>>>>, <<730, "M", <<32, 778>>>>, <<731, "M", <<32, 808>>>>,
        <<732, "M", <<32, 771>>>>, <<733, "M", <<32, 779>>>>, <<734, "V">>,
        <<736, "M", <<611>>>>, <<737, "M", <<108>>>>, <<738, "M", <<115>>>>,
        <<739, "M", <<120>>>>, <<740, "M", <<661>>>>, <<741, "V">>, <<832, "M", <<768>>>>,
        <<833, "M", <<769>>>>, <<834, "V">>, <<835, "M", <<787>>>>, <<836, "M", <<776, 769>>>>,
        <<837, "M", <<953>>>>, <<838, "V">>, <<847, "I">>, <<848, "V">>, <<880, "M", <<881>>>>,
        <<881, "V">>, <<882, "M", <<883>>>>, <<883, "V">>, <<884, "M", <<697>>>>, <<885, "V">>,
        <<886, "M", <<887>>>>, <<887, "V">>, <<888, "X">>, <<890, "M", <<32, 953>>>>,
        <<891, "V">>, <<894, "M", <<59>>>>, <<895, "M", <<1011>>>>, <<896, "X">>,
        <<900, "M", <<32, 769>>>>, <<901, "M", <<32, 776, 769>>>>, <<902, "M", <<940>>>>,
        <<903, "M", <<183>>>>, <<904, "M", <<941>>>>, <<905, "M", <<942>>>>,
        <<906, "M", <<943>>>>, <<907, "X">>, <<908, "M", <<972>>>>, <<909, "X">>,
        <<910, "M", <<973>>>>, <<911, "M", <<974>>>>, <<912, "V">>, <<913, "M", <<945>>>>,
        <<914, "M", <<946>>>>, <<915, "M", <<947>>>>, <<916, "M", <<948>>>>,
        <<917, "M", <<949>>>>, <<918, "M", <<950>>>>, <<919, "M", <<951>>>>,
        <<920, "M", <<952>>>>, <<921, "M", <<953>>>>, <<922, "M", <<954>>>>,
        <<923, "M", <<955>>>>, <<924, "M", <<956>>>>, <<925, "M", <<957>>>>,
        <<926, "M", <<958>>>>, <<927, "M", <<959>>>>, <<928, "M", <<960>>>>,
        <<929, "M", <<961>>>>, <<930, "X">>, <<931, "M", <<963>>>>, <<932, "M", <<964>>>>,
        <<933, "M", <<965>>>>, <<934, "M", <<966>>>>, <<935, "M", <<967>>>>,
        <<936, "M", <<968>>>>, <<937, "M", <<969>>>>, <<938, "M", <<970>>>>,
        <<939, "M", <<971>>>>, <<940, "V">>, <<975, "M", <<983>>>>, <<976, "M", <<946>>>>,
        <<977, "M", <<952>>>>, <<978, "M", <<965>>>>, <<979, "M", <<973>>>>,
        <<980, "M", <<971>>>>, <<981, "M", <<966>>>>, <<982, "M", <<960>>>>, <<983, "V">>,
        <<984, "M", <<985>>>>, <<985, "V">>, <<986, "M", <<987>>>>, <<987, "V">>,
        <<988, "M", <<989>>>>, <<989, "V">>, <<990, "M", <<991>>>>, <<991, "V">>,
        <<992, "M", <<993>>>>, <<993, "V">>, <<994, "M", <<995>>>>, <<995, "V">>,
        <<996, "M", <<997>>>>, <<997, "V">>, <<998, "M", <<999>>>>, <<999, "V">>,
        <<1000, "M", <<1001>>>>, <<1001, "V">>, <<1002, "M", <<1003>>>>, <<1003, "V">>,
        <<1004, "M", <<1005>>>>, <<1005, "V">>, <<1006, "M", <<1007>>>>, <<1007, "V">>,
        <<1008, "M", <<954>>>>, <<1009, "M", <<961>>>>, <<1010, "M", <<963>>>>, <<1011, "V">>,
        <<1012, "M", <<952>>>>, <<1013, "M", <<949>>>>, <<1014, "V">>, <<1015, "M", <<1016>>>>,
        <<1016, "V">>, <<1017, "M", <<963>>>>, <<1018, "M", <<1019>>>>, <<1019, "V">>,
        <<1021, "M", <<891>>>>, <<1022, "M", <<892>>>>, <<1023, "M", <<893>>>>,
        <<1024, "M", <<1104>>>>, <<1025, "M", <<1105>>>>, <<1026, "M", <<1106>>>>,
        <<1027, "M", <<1107>>>>, <<1028, "M", <<1108>>>>, <<1029, "M", <<1109>>>>,
        <<1030, "M", <<1110>>>>, <<1031, "M", <<1111>>>>, <<1032, "M", <<1112>>>>,
        <<1033, "M", <<1113>>>>, <<1034, "M", <<1114>>>>, <<1035, "M", <<1115>>>>,
        <<1036, "M", <<1116>>>>, <<1037, "M", <<1117>>>>, <<1038, "M", <<1118>>>>,
        <<1039, "M", <<1119>>>>, <<1040, "M", <<1072>>>>, <<1041, "M", <<1073>>>>,
        <<1042, "M", <<1074>>>>, <<1043, "M", <<1075>>>>, <<1044, "M", <<1076>>>>,
        <<1045, "M", <<1077>>>>, <<1046, "M", <<1078>>>>, <<1047, "M", <<1079>>>>,
        <<1048, "M", <<1080>>>>, <<1049, "M", <<1081>>>>, <<1050, "M", <<1082>>>>,
        <<1051, "M", <<1083>>>>, <<1052, "M", <<1084>>>>, <<1053, "M", <<1085>>>>,
        <<1054, "M", <<1086>>>>, <<1055, "M", <<1087>>>>, <<1056, "M", <<1088>>>>,
        <<1057, "M", <<1089>>>>, <<1058, "M", <<1090>>>>, <<1059, "M", <<1091>>>>,
        <<1060, "M", <<1092>>>>, <<1061, "M", <<1093>>>>, <<1062, "M", <<1094>>>>,
        <<1063, "M", <<1095>>>>, <<1064, "M", <<1096>>>>, <<1065, "M", <<1097>>>>,
        <<1066, "M", <<1098>>>>, <<1067, "M", <<1099>>>>, <<1068, "M", <<1100>>>>,
        <<1069, "M", <<1101>>>>, <<1070, "M", <<1102>>>>, <<1071, "M", <<1103>>>>,
        <<1072, "V">>, <<1120, "M", <<1121>>>>, <<1121, "V">>, <<1122, "M", <<1123>>>>,
        <<1123, "V">>, <<1124, "M", <<1125>>>>, <<1125, "V">>, <<1126, "M", <<1127>>>>,
        <<1127, "V">>, <<1128, "M", <<1129>>>>, <<1129, "V">>, <<1130, "M", <<1131>>>>,
        <<1131, "V">>, <<1132, "M", <<1133>>>>, <<1133, "V">>, <<1134, "M", <<1135>>>>,
        <<1135, "V">>, <<1136, "M", <<1137>>>>, <<1137, "V">>, <<1138, "M", <<1139>>>>,
        <<1139, "V">>, <<1140, "M", <<1141>>>>, <<1141, "V">>, <<1142, "M", <<1143>>>>,
        <<1143, "V">>, <<1144, "M", <<1145>>>>, <<1145, "V">>, <<1146, "M", <<1147>>>>,
        <<1147, "V">>, <<1148, "M", <<1149>>>>, <<1149, "V">>, <<1150, "M", <<1151>>>>,
        <<1151, "V">>, <<1152, "M", <<1153>>>>, <<1153, "V">>, <<1162, "M", <<1163>>>>,
        <<1163, "V">>, <<1164, "M", <<1165>>>>, <<1165, "V">>, <<1166, "M", <<1167>>>>,
        <<1167, "V">>, <<1168, "M", <<1169>>>>, <<1169, "V">>, <<1170, "M", <<1171>>>>,
        <<1171, "V">>, <<1172, "M", <<1173>>>>, <<1173, "V">>, <<1174, "M", <<1175>>>>,
        <<1175, "V">>, <<1176, "M", <<1177>>>>, <<1177, "V">>, <<1178, "M", <<1179>>>>,
        <<1179, "V">>, <<1180, "M", <<1181>>>>, <<1181, "V">>, <<1182, "M", <<1183>>>>,
        <<1183, "V">>, <<1184, "M", <<1185>>>>, <<1185, "V">>, <<1186, "M", <<1187>>>>,
        <<1187, "V">>, <<1188, "M", <<1189>>>>, <<1189, "V">>, <<1190, "M", <<1191>>>>,
        <<1191, "V">>, <<1192, "M", <<1193>>>>, <<1193, "V">>, <<1194, "M", <<1195>>>>,
        <<1195, "V">>, <<1196, "M", <<1197>>>>, <<1197, "V">>, <<1198, "M", <<1199>>>>,
        <<1199, "V">>, <<1200, "M", <<1201>>>>, <<1201, "V">>, <<1202, "M", <<1203>>>>,
        <<1203, "V">>, <<1204, "M", <<1205>>>>, <<1205, "V">>, <<1206, "M", <<1207>>>>,
        <<1207, "V">>, <<1208, "M", <<1209>>>>, <<1209, "V">>, <<1210, "M", <<1211>>>>,
        <<1211, "V">>, <<1212, "M", <<1213>>>>, <<1213, "V">>, <<1214, "M", <<1215>>>>,
        <<1215, "V">>, <<1216, "X">>, <<1217, "M", <<1218>>>>, <<1218, "V">>,
        <<1219, "M", <<1220>>>>, <<1220, "V">>, <<1221, "M", <<1222>>>>, <<1222, "V">>,
        <<1223, "M", <<1224>>>>, <<1224, "V">>, <<1225, "M", <<1226>>>>, <<1226, "V">>,
        <<1227, "M", <<1228>>>>, <<1228, "V">>, <<1229, "M", <<1230>>>>, <<1230, "V">>,
        <<1232, "M", <<1233>>>>, <<1233, "V">>, <<1234, "M", <<1235>>>>, <<1235, "V">>,
        <<1236, "M", <<1237>>>>, <<1237, "V">>, <<1238, "M", <<1239>>>>, <<1239, "V">>,
        <<1240, "M", <<1241>>>>, <<1241, "V">>, <<1242, "M", <<1243>>>>, <<1243, "V">>,
        <<1244, "M", <<1245>>>>, <<1245, "V">>, <<1246, "M", <<1247>>>>, <<1247, "V">>,
        <<1248, "M", <<1249>>>>, <<1249, "V">>, <<1250, "M", <<1251>>>>, <<1251, "V">>,
        <<1252, "M", <<1253>>>>, <<1253, "V">>, <<1254, "M", <<1255>>>>, <<1255, "V">>,
        <<1256, "M", <<1257>>>>, <<1257, "V">>, <<1258, "M", <<1259>>>>, <<1259, "V">>,
        <<1260, "M", <<1261>>>>, <<1261, "V">>, <<1262, "M", <<1263>>>>, <<1263, "V">>,
        <<1264, "M", <<1265>>>>, <<1265, "V">>, <<1266, "M", <<1267>>>>, <<1267, "V">>,
        <<1268, "M", <<1269>>>>, <<1269, "V">>, <<1270, "M", <<1271>>>>, <<1271, "V">>,
        <<1272, "M", <<1273>>>>, <<1273, "V">>, <<1274, "M", <<1275>>>>, <<1275, "V">>,
        <<1276, "M", <<1277>>>>, <<1277, "V">>, <<1278, "M", <<1279>>>>, <<1279, "V">>,
        <<1280, "M", <<1281>>>>, <<1281, "V">>, <<1282, "M", <<1283>>>>, <<1283, "V">>,
        <<1284, "M", <<1285>>>>, <<1285, "V">>, <<1286, "M", <<1287>>>>, <<1287, "V">>,
        <<1288, "M", <<1289>>>>, <<1289, "V">>, <<1290, "M", <<1291>>>>, <<1291, "V">>,
        <<1292, "M", <<1293>>>>, <<1293, "V">>, <<1294, "M", <<1295>>>>, <<1295, "V">>,
        <<1296, "M", <<1297>>>>, <<1297, "V">>, <<1298, "M", <<1299>>>>, <<1299, "V">>,
        <<1300, "M", <<1301>>>>, <<1301, "V">>, <<1302, "M", <<1303>>>>, <<1303, "V">>,
        <<1304, "M", <<1305>>>>, <<1305, "V">>, <<1306, "M", <<1307>>>>, <<1307, "V">>,
        <<1308, "M", <<1309>>>>, <<1309, "V">>, <<1310, "M", <<1311>>>>, <<1311, "V">>,
        <<1312, "M", <<1313>>>>, <<1313, "V">>, <<1314, "M", <<1315>>>>, <<1315, "V">>,
        <<1316, "M", <<1317>>>>, <<1317, "V">>, <<1318, "M", <<1319>>>>, <<1319, "V">>,
        <<1320, "M", <<1321>>>>, <<1321, "V">>, <<1322, "M", <<1323>>>>, <<1323, "V">>,
        <<1324, "M", <<1325>>>>, <<1325, "V">>, <<1326, "M", <<1327>>>>, <<1327, "V">>,
        <<1328, "X">>, <<1329, "M", <<1377>>>>, <<1330, "M", <<1378>>>>,
        <<1331, "M", <<1379>>>>, <<1332, "M", <<1380>>>>, <<1333, "M", <<1381>>>>,
        <<1334, "M", <<1382>>>>, <<1335, "M", <<1383>>>>, <<1336, "M", <<1384>>>>,
        <<1337, "M", <<1385>>>>, <<1338, "M", <<1386>>>>, <<1339, "M", <<1387>>>>,
        <<1340, "M", <<1388>>>>, <<1341, "M", <<1389>>>>, <<1342, "M", <<1390>>>>,
        <<1343, "M", <<1391>>>>, <<1344, "M", <<1392>>>>, <<1345, "M", <<1393>>>>,
        <<1346, "M", <<1394>>>>, <<1347, "M", <<1395>>>>, <<1348, "M", <<1396>>>>,
        <<1349, "M", <<1397>>>>, <<1350, "M", <<1398>>>>, <<1351, "M", <<1399>>>>,
        <<1352, "M", <<1400>>>>, <<1353, "M", <<1401>>>>, <<1354, "M", <<1402>>>>,
        <<1355, "M", <<1403>>>>, <<1356, "M", <<1404>>>>, <<1357, "M", <<1405>>>>,
        <<1358, "M", <<1406>>>>, <<1359, "M", <<1407>>>>, <<1360, "M", <<1408>>>>,
        <<1361, "M", <<1409>>>>, <<1362, "M", <<1410>>>>, <<1363, "M", <<1411>>>>,
        <<1364, "M", <<1412>>>>, <<1365, "M", <<1413>>>>, <<1366, "M", <<1414>>>>,
        <<1367, "X">>, <<1369, "V">>, <<1415, "M", <<1381, 1410>>>>, <<1416, "V">>,
        <<1419, "X">>, <<1421, "V">>, <<1424, "X">>, <<1425, "V">>, <<1480, "X">>,
        <<1488, "V">>, <<1515, "X">>, <<1519, "V">>, <<1525, "X">>, <<1542, "V">>,
        <<1564, "X">>, <<1565, "V">>, <<1653, "M", <<1575, 1652>>>>,
        <<1654, "M", <<1608, 1652>>>>, <<1655, "M", <<1735, 1652>>>>,
        <<1656, "M", <<1610, 1652>>>>, <<1657, "V">>, <<1757, "X">>, <<1758, "V">>,
        <<1806, "X">>, <<1808, "V">>, <<1867, "X">>, <<1869, "V">>, <<1970, "X">>,
        <<1984, "V">>, <<2043, "X">>, <<2045, "V">>, <<2094, "X">>, <<2096, "V">>,
        <<2111, "X">>, <<2112, "V">>, <<2140, "X">>, <<2142, "V">>, <<2143, "X">>,
        <<2144, "V">>, <<2155, "X">>, <<2160, "V">>, <<2191, "X">>, <<2200, "V">>,
        <<2274, "X">>, <<2275, "V">>, <<2392, "M", <<2325, 2364>>>>,
        <<2393, "M", <<2326, 2364>>>>, <<2394, "M", <<2327, 2364>>>>,
        <<2395, "M", <<2332, 2364>>>>, <<2396, "M", <<2337, 2364>>>>,
        <<2397, "M", <<2338, 2364>>>>, <<2398, "M", <<2347, 2364>>>>,
        <<2399, "M", <<2351, 2364>>>>, <<2400, "V">>, <<2436, "X">>, <<2437, "V">>,
        <<2445, "X">>, <<2447, "V">>, <<2449, "X">>, <<2451, "V">>, <<2473, "X">>,
        <<2474, "V">>, <<2481, "X">>, <<2482, "V">>, <<2483, "X">>, <<2486, "V">>,
        <<2490, "X">>, <<2492, "V">>, <<2501, "X">>, <<2503, "V">>, <<2505, "X">>,
        <<2507, "V">>, <<2511, "X">>, <<2519, "V">>, <<2520, "X">>,
        <<2524, "M", <<2465, 2492>>>>, <<2525, "M", <<2466, 2492>>>>, <<2526, "X">>,
        <<2527, "M", <<2479, 2492>>>>, <<2528, "V">>, <<2532, "X">>, <<2534, "V">>,
        <<2559, "X">>, <<2561, "V">>, <<2564, "X">>, <<2565, "V">>, <<2571, "X">>,
        <<2575, "V">>, <<2577, "X">>, <<2579, "V">>, <<2601, "X">>, <<2602, "V">>,
        <<2609, "X">>, <<2610, "V">>, <<2611, "M", <<2610, 2620>>>>, <<2612, "X">>,
        <<2613, "V">>, <<2614, "M", <<2616, 2620>>>>, <<2615, "X">>, <<2616, "V">>,
        <<2618, "X">>, <<2620, "V">>, <<2621, "X">>, <<2622, "V">>, <<2627, "X">>,
        <<2631, "V">>, <<2633, "X">>, <<2635, "V">>, <<2638, "X">>, <<2641, "V">>,
        <<2642, "X">>, <<2649, "M", <<2582, 2620>>>>, <<2650, "M", <<2583, 2620>>>>,
        <<2651, "M", <<2588, 2620>>>>, <<2652, "V">>, <<2653, "X">>,
        <<2654, "M", <<2603, 2620>>>>, <<2655, "X">>, <<2662, "V">>, <<2679, "X">>,
        <<2689, "V">>, <<2692, "X">>, <<2693, "V">>, <<2702, "X">>, <<2703, "V">>,
        <<2706, "X">>, <<2707, "V">>, <<2729, "X">>, <<2730, "V">>, <<2737, "X">>,
        <<2738, "V">>, <<2740, "X">>, <<2741, "V">>, <<2746, "X">>, <<2748, "V">>,
        <<2758, "X">>, <<2759, "V">>, <<2762, "X">>, <<2763, "V">>, <<2766, "X">>,
        <<2768, "V">>, <<2769, "X">>, <<2784, "V">>, <<2788, "X">>, <<2790, "V">>,
        <<2802, "X">>, <<2809, "V">>, <<2816, "X">>, <<2817, "V">>, <<2820, "X">>,
        <<2821, "V">>, <<2829, "X">>, <<2831, "V">>, <<2833, "X">>, <<2835, "V">>,
        <<2857, "X">>, <<2858, "V">>, <<2865, "X">>, <<2866, "V">>, <<2868, "X">>,
        <<2869, "V">>, <<2874, "X">>, <<2876, "V">>, <<2885, "X">>, <<2887, "V">>,
        <<2889, "X">>, <<2891, "V">>, <<2894, "X">>, <<2901, "V">>, <<2904, "X">>,
        <<2908, "M", <<2849, 2876>>>>, <<2909, "M", <<2850, 2876>>>>, <<2910, "X">>,
        <<2911, "V">>, <<2916, "X">>, <<2918, "V">>, <<2936, "X">>, <<2946, "V">>,
        <<2948, "X">>, <<2949, "V">>, <<2955, "X">>, <<2958, "V">>, <<2961, "X">>,
        <<2962, "V">>, <<2966, "X">>, <<2969, "V">>, <<2971, "X">>, <<2972, "V">>,
        <<2973, "X">>, <<2974, "V">>, <<2976, "X">>, <<2979, "V">>, <<2981, "X">>,
        <<2984, "V">>, <<2987, "X">>, <<2990, "V">>, <<3002, "X">>, <<3006, "V">>,
        <<3011, "X">>, <<3014, "V">>, <<3017, "X">>, <<3018, "V">>, <<3022, "X">>,
        <<3024, "V">>, <<3025, "X">>, <<3031, "V">>, <<3032, "X">>, <<3046, "V">>,
        <<3067, "X">>, <<3072, "V">>, <<3085, "X">>, <<3086, "V">>, <<3089, "X">>,
        <<3090, "V">>, <<3113, "X">>, <<3114, "V">>, <<3130, "X">>, <<3132, "V">>,
        <<3141, "X">>, <<3142, "V">>, <<3145, "X">>, <<3146, "V">>, <<3150, "X">>,
        <<3157, "V">>, <<3159, "X">>, <<3160, "V">>, <<3163, "X">>, <<3165, "V">>,
        <<3166, "X">>, <<3168, "V">>, <<3172, "X">>, <<3174, "V">>, <<3184, "X">>,
        <<3191, "V">>, <<3213, "X">>, <<3214, "V">>, <<3217, "X">>, <<3218, "V">>,
        <<3241, "X">>, <<3242, "V">>, <<3252, "X">>, <<3253, "V">>, <<3258, "X">>,
        <<3260, "V">>, <<3269, "X">>, <<3270, "V">>, <<3273, "X">>, <<3274, "V">>,
        <<3278, "X">>, <<3285, "V">>, <<3287, "X">>, <<3293, "V">>, <<3295, "X">>,
        <<3296, "V">>, <<3300, "X">>, <<3302, "V">>, <<3312, "X">>, <<3313, "V">>,
        <<3316, "X">>, <<3328, "V">>, <<3341, "X">>, <<3342, "V">>, <<3345, "X">>,
        <<3346, "V">>, <<3397, "X">>, <<3398, "V">>, <<3401, "X">>, <<3402, "V">>,
        <<3408, "X">>, <<3412, "V">>, <<3428, "X">>, <<3430, "V">>, <<3456, "X">>,
        <<3457, "V">>, <<3460, "X">>, <<3461, "V">>, <<3479, "X">>, <<3482, "V">>,
        <<3506, "X">>, <<3507, "V">>, <<3516, "X">>, <<3517, "V">>, <<3518, "X">>,
        <<3520, "V">>, <<3527, "X">>, <<3530, "V">>, <<3531, "X">>, <<3535, "V">>,
        <<3541, "X">>, <<3542, "V">>, <<3543, "X">>, <<3544, "V">>, <<3552, "X">>,
        <<3558, "V">>, <<3568, "X">>, <<3570, "V">>, <<3573, "X">>, <<3585, "V">>,
        <<3635, "M", <<3661, 3634>>>>, <<3636, "V">>, <<3643, "X">>, <<3647, "V">>,
        <<3676, "X">>, <<3713, "V">>, <<3715, "X">>, <<3716, "V">>, <<3717, "X">>,
        <<3718, "V">>, <<3723, "X">>, <<3724, "V">>, <<3748, "X">>, <<3749, "V">>,
        <<3750, "X">>, <<3751, "V">>, <<3763, "M", <<3789, 3762>>>>, <<3764, "V">>,
        <<3774, "X">>, <<3776, "V">>, <<3781, "X">>, <<3782, "V">>, <<3783, "X">>,
        <<3784, "V">>, <<3791, "X">>, <<3792, "V">>, <<3802, "X">>,
        <<3804, "M", <<3755, 3737>>>>, <<3805, "M", <<3755, 3745>>>>, <<3806, "V">>,
        <<3808, "X">>, <<3840, "V">>, <<3852, "M", <<3851>>>>, <<3853, "V">>,
        <<3907, "M", <<3906, 4023>>>>, <<3908, "V">>, <<3912, "X">>, <<3913, "V">>,
        <<3917, "M", <<3916, 4023>>>>, <<3918, "V">>, <<3922, "M", <<3921, 4023>>>>,
        <<3923, "V">>, <<3927, "M", <<3926, 4023>>>>, <<3928, "V">>,
        <<3932, "M", <<3931, 4023>>>>, <<3933, "V">>, <<3945, "M", <<3904, 4021>>>>,
        <<3946, "V">>, <<3949, "X">>, <<3953, "V">>, <<3955, "M", <<3953, 3954>>>>,
        <<3956, "V">>, <<3957, "M", <<3953, 3956>>>>, <<3958, "M", <<4018, 3968>>>>,
        <<3959, "M", <<4018, 3953, 3968>>>>, <<3960, "M", <<4019, 3968>>>>,
        <<3961, "M", <<4019, 3953, 3968>>>>, <<3962, "V">>, <<3969, "M", <<3953, 3968>>>>,
        <<3970, "V">>, <<3987, "M", <<3986, 4023>>>>, <<3988, "V">>, <<3992, "X">>,
        <<3993, "V">>, <<3997, "M", <<3996, 4023>>>>, <<3998, "V">>,
        <<4002, "M", <<4001, 4023>>>>, <<4003, "V">>, <<4007, "M", <<4006, 4023>>>>,
        <<4008, "V">>, <<4012, "M", <<4011, 4023>>>>, <<4013, "V">>,
        <<4025, "M", <<3984, 4021>>>>, <<4026, "V">>, <<4029, "X">>, <<4030, "V">>,
        <<4045, "X">>, <<4046, "V">>, <<4059, "X">>, <<4096, "V">>, <<4256, "X">>,
        <<4295, "M", <<11559>>>>, <<4296, "X">>, <<4301, "M", <<11565>>>>, <<4302, "X">>,
        <<4304, "V">>, <<4348, "M", <<4316>>>>, <<4349, "V">>, <<4447, "X">>, <<4449, "V">>,
        <<4681, "X">>, <<4682, "V">>, <<4686, "X">>, <<4688, "V">>, <<4695, "X">>,
        <<4696, "V">>, <<4697, "X">>, <<4698, "V">>, <<4702, "X">>, <<4704, "V">>,
        <<4745, "X">>, <<4746, "V">>, <<4750, "X">>, <<4752, "V">>, <<4785, "X">>,
        <<4786, "V">>, <<4790, "X">>, <<4792, "V">>, <<4799, "X">>, <<4800, "V">>,
        <<4801, "X">>, <<4802, "V">>, <<4806, "X">>, <<4808, "V">>, <<4823, "X">>,
        <<4824, "V">>, <<4881, "X">>, <<4882, "V">>, <<4886, "X">>, <<4888, "V">>,
        <<4955, "X">>, <<4957, "V">>, <<4989, "X">>, <<4992, "V">>, <<5018, "X">>,
        <<5024, "V">>, <<5110, "X">>, <<5112, "M", <<5104>>>>, <<5113, "M", <<5105>>>>,
        <<5114, "M", <<5106>>>>, <<5115, "M", <<5107>>>>, <<5116, "M", <<5108>>>>,
        <<5117, "M", <<5109>>>>, <<5118, "X">>, <<5120, "V">>, <<5760, "X">>, <<5761, "V">>,
        <<5789, "X">>, <<5792, "V">>, <<5881, "X">>, <<5888, "V">>, <<5910, "X">>,
        <<5919, "V">>, <<5943, "X">>, <<5952, "V">>, <<5972, "X">>, <<5984, "V">>,
        <<5997, "X">>, <<5998, "V">>, <<6001, "X">>, <<6002, "V">>, <<6004, "X">>,
        <<6016, "V">>, <<6068, "X">>, <<6070, "V">>, <<6110, "X">>, <<6112, "V">>,
        <<6122, "X">>, <<6128, "V">>, <<6138, "X">>, <<6144, "V">>, <<6150, "X">>,
        <<6151, "V">>, <<6155, "I">>, <<6158, "X">>, <<6159, "I">>, <<6160, "V">>,
        <<6170, "X">>, <<6176, "V">>, <<6265, "X">>, <<6272, "V">>, <<6315, "X">>,
        <<6320, "V">>, <<6390, "X">>, <<6400, "V">>, <<6431, "X">>, <<6432, "V">>,
        <<6444, "X">>, <<6448, "V">>, <<6460, "X">>, <<6464, "V">>, <<6465, "X">>,
        <<6468, "V">>, <<6510, "X">>, <<6512, "V">>, <<6517, "X">>, <<6528, "V">>,
        <<6572, "X">>, <<6576, "V">>, <<6602, "X">>, <<6608, "V">>, <<6619, "X">>,
        <<6622, "V">>, <<6684, "X">>, <<6686, "V">>, <<6751, "X">>, <<6752, "V">>,
        <<6781, "X">>, <<6783, "V">>, <<6794, "X">>, <<6800, "V">>, <<6810, "X">>,
        <<6816, "V">>, <<6830, "X">>, <<6832, "V">>, <<6863, "X">>, <<6912, "V">>,
        <<6989, "X">>, <<6992, "V">>, <<7039, "X">>, <<7040, "V">>, <<7156, "X">>,
        <<7164, "V">>, <<7224, "X">>, <<7227, "V">>, <<7242, "X">>, <<7245, "V">>,
        <<7296, "M", <<1074>>>>, <<7297, "M", <<1076>>>>, <<7298, "M", <<1086>>>>,
        <<7299, "M", <<1089>>>>, <<7300, "M", <<1090>>>>, <<7302, "M", <<1098>>>>,
        <<7303, "M", <<1123>>>>, <<7304, "M", <<42571>>>>, <<7305, "X">>,
        <<7312, "M", <<4304>>>>, <<7313, "M", <<4305>>>>, <<7314, "M", <<4306>>>>,
        <<7315, "M", <<4307>>>>, <<7316, "M", <<4308>>>>, <<7317, "M", <<4309>>>>,
        <<7318, "M", <<4310>>>>, <<7319, "M", <<4311>>>>, <<7320, "M", <<4312>>>>,
        <<7321, "M", <<4313>>>>, <<7322, "M", <<4314>>>>, <<7323, "M", <<4315>>>>,
        <<7324, "M", <<4316>>>>, <<7325, "M", <<4317>>>>, <<7326, "M", <<4318>>>>,
        <<7327, "M", <<4319>>>>, <<7328, "M", <<4320>>>>, <<7329, "M", <<4321>>>>,
        <<7330, "M", <<4322>>>>, <<7331, "M", <<4323>>>>, <<7332, "M", <<4324>>>>,
        <<7333, "M", <<4325>>>>, <<7334, "M", <<4326>>>>, <<7335, "M", <<4327>>>>,
        <<7336, "M", <<4328>>>>, <<7337, "M", <<4329>>>>, <<7338, "M", <<4330>>>>,
        <<7339, "M", <<4331>>>>, <<7340, "M", <<4332>>>>, <<7341, "M", <<4333>>>>,
        <<7342, "M", <<4334>>>>, <<7343, "M", <<4335>>>>, <<7344, "M", <<4336>>>>,
        <<7345, "M", <<4337>>>>, <<7346, "M", <<4338>>>>, <<7347, "M", <<4339>>>>,
        <<7348, "M", <<4340>>>>, <<7349, "M", <<4341>>>>, <<7350, "M", <<4342>>>>,
        <<7351, "M", <<4343>>>>, <<7352, "M", <<4344>>>>, <<7353, "M", <<4345>>>>,
        <<7354, "M", <<4346>>>>, <<7355, "X">>, <<7357, "M", <<4349>>>>,
        <<7358, "M", <<4350>>>>, <<7359, "M", <<4351>>>>, <<7360, "V">>, <<7368, "X">>,
        <<7376, "V">>, <<7419, "X">>, <<7424, "V">>, <<7468, "M", <<97>>>>,
        <<7469, "M", <<230>>>>, <<7470, "M", <<98>>>>, <<7471, "V">>, <<7472, "M", <<100>>>>,
        <<7473, "M", <<101>>>>, <<7474, "M", <<477>>>>, <<7475, "M", <<103>>>>,
        <<7476, "M", <<104>>>>, <<7477, "M", <<105>>>>, <<7478, "M", <<106>>>>,
        <<7479, "M", <<107>>>>, <<7480, "M", <<108>>>>, <<7481, "M", <<109>>>>,
        <<7482, "M", <<110>>>>, <<7483, "V">>, <<7484, "M", <<111>>>>, <<7485, "M", <<547>>>>,
        <<7486, "M", <<112>>>>, <<7487, "M", <<114>>>>, <<7488, "M", <<116>>>>,
        <<7489, "M", <<117>>>>, <<7490, "M", <<119>>>>, <<7491, "M", <<97>>>>,
        <<7492, "M", <<592>>>>, <<7493, "M", <<593>>>>, <<7494, "M", <<7426>>>>,
        <<7495, "M", <<98>>>>, <<7496, "M", <<100>>>>, <<7497, "M", <<101>>>>,
        <<7498, "M", <<601>>>>, <<7499, "M", <<603>>>>, <<7500, "M", <<604>>>>,
        <<7501, "M", <<103>>>>, <<7502, "V">>, <<7503, "M", <<107>>>>, <<7504, "M", <<109>>>>,
        <<7505, "M", <<331>>>>, <<7506, "M", <<111>>>>, <<7507, "M", <<596>>>>,
        <<7508, "M", <<7446>>>>, <<7509, "M", <<7447>>>>, <<7510, "M", <<112>>>>,
        <<7511, "M", <<116>>>>, <<7512, "M", <<117>>>>, <<7513, "M", <<7453>>>>,
        <<7514, "M", <<623>>>>, <<7515, "M", <<118>>>>, <<7516, "M", <<7461>>>>,
        <<7517, "M", <<946>>>>, <<7518, "M", <<947>>>>, <<7519, "M", <<948>>>>,
        <<7520, "M", <<966>>>>, <<7521, "M", <<967>>>>, <<7522, "M", <<105>>>>,
        <<7523, "M", <<114>>>>, <<7524, "M", <<117>>>>, <<7525, "M", <<118>>>>,
        <<7526, "M", <<946>>>>, <<7527, "M", <<947>>>>, <<7528, "M", <<961>>>>,
        <<7529, "M", <<966>>>>, <<7530, "M", <<967>>>>, <<7531, "V">>, <<7544, "M", <<1085>>>>,
        <<7545, "V">>, <<7579, "M", <<594>>>>, <<7580, "M", <<99>>>>, <<7581, "M", <<597>>>>,
        <<7582, "M", <<240>>>>, <<7583, "M", <<604>>>>, <<7584, "M", <<102>>>>,
        <<7585, "M", <<607>>>>, <<7586, "M", <<609>>>>, <<7587, "M", <<613>>>>,
        <<7588, "M", <<616>>>>, <<7589, "M", <<617>>>>, <<7590, "M", <<618>>>>,
        <<7591, "M", <<7547>>>>, <<7592, "M", <<669>>>>, <<7593, "M", <<621>>>>,
        <<7594, "M", <<7557>>>>, <<7595, "M", <<671>>>>, <<7596, "M", <<625>>>>,
        <<7597, "M", <<624>>>>, <<7598, "M", <<626>>>>, <<7599, "M", <<627>>>>,
        <<7600, "M", <<628>>>>, <<7601, "M", <<629>>>>, <<7602, "M", <<632>>>>,
        <<7603, "M", <<642>>>>, <<7604, "M", <<643>>>>, <<7605, "M", <<427>>>>,
        <<7606, "M", <<649>>>>, <<7607, "M", <<650>>>>, <<7608, "M", <<7452>>>>,
        <<7609, "M", <<651>>>>, <<7610, "M", <<652>>>>, <<7611, "M", <<122>>>>,
        <<7612, "M", <<656>>>>, <<7613, "M", <<657>>>>, <<7614, "M", <<658>>>>,
        <<7615, "M", <<952>>>>, <<7616, "V">>, <<7680, "M", <<7681>>>>, <<7681, "V">>,
        <<7682, "M", <<7683>>>>, <<7683, "V">>, <<7684, "M", <<7685>>>>, <<7685, "V">>,
        <<7686, "M", <<7687>>>>, <<7687, "V">>, <<7688, "M", <<7689>>>>, <<7689, "V">>,
        <<7690, "M", <<7691>>>>, <<7691, "V">>, <<7692, "M", <<7693>>>>, <<7693, "V">>,
        <<7694, "M", <<7695>>>>, <<7695, "V">>, <<7696, "M", <<7697>>>>, <<7697, "V">>,
        <<7698, "M", <<7699>>>>, <<7699, "V">>, <<7700, "M", <<7701>>>>, <<7701, "V">>,
        <<7702, "M", <<7703>>>>, <<7703, "V">>, <<7704, "M", <<7705>>>>, <<7705, "V">>,
        <<7706, "M", <<7707>>>>, <<7707, "V">>, <<7708, "M", <<7709>>>>, <<7709, "V">>,
        <<7710, "M", <<7711>>>>, <<7711, "V">>, <<7712, "M", <<7713>>>>, <<7713, "V">>,
        <<7714, "M", <<7715>>>>, <<7715, "V">>, <<7716, "M", <<7717>>>>, <<7717, "V">>,
        <<7718, "M", <<7719>>>>, <<7719, "V">>, <<7720, "M", <<7721>>>>, <<7721, "V">>,
        <<7722, "M", <<7723>>>>, <<7723, "V">>, <<7724, "M", <<7725>>>>, <<7725, "V">>,
        <<7726, "M", <<7727>>>>, <<7727, "V">>, <<7728, "M", <<7729>>>>, <<7729, "V">>,
        <<7730, "M", <<7731>>>>, <<7731, "V">>, <<7732, "M", <<7733>>>>, <<7733, "V">>,
        <<7734, "M", <<7735>>>>, <<7735, "V">>, <<7736, "M", <<7737>>>>, <<7737, "V">>,
        <<7738, "M", <<7739>>>>, <<7739, "V">>, <<7740, "M", <<7741>>>>, <<7741, "V">>,
        <<7742, "M", <<7743>>>>, <<7743, "V">>, <<7744, "M", <<7745>>>>, <<7745, "V">>,
        <<7746, "M", <<7747>>>>, <<7747, "V">>, <<7748, "M", <<7749>>>>, <<7749, "V">>,
        <<7750, "M", <<7751>>>>, <<7751, "V">>, <<7752, "M", <<7753>>>>, <<7753, "V">>,
        <<7754, "M", <<7755>>>>, <<7755, "V">>, <<7756, "M", <<7757>>>>, <<7757, "V">>,
        <<7758, "M", <<7759>>>>, <<7759, "V">>, <<7760, "M", <<7761>>>>, <<7761, "V">>,
        <<7762, "M", <<7763>>>>, <<7763, "V">>, <<7764, "M", <<7765>>>>, <<7765, "V">>,
        <<7766, "M", <<7767>>>>, <<7767, "V">>, <<7768, "M", <<7769>>>>, <<7769, "V">>,
        <<7770, "M", <<7771>>>>, <<7771, "V">>, <<7772, "M", <<7773>>>>, <<7773, "V">>,
        <<7774, "M", <<7775>>>>, <<7775, "V">>, <<7776, "M", <<7777>>>>, <<7777, "V">>,
        <<7778, "M", <<7779>>>>, <<7779, "V">>, <<7780, "M", <<7781>>>>, <<7781, "V">>,
        <<7782, "M", <<7783>>>>, <<7783, "V">>, <<7784, "M", <<7785>>>>, <<7785, "V">>,
        <<7786, "M", <<7787>>>>, <<7787, "V">>, <<7788, "M", <<7789>>>>, <<7789, "V">>,
        <<7790, "M", <<7791>>>>, <<7791, "V">>, <<7792, "M", <<7793>>>>, <<7793, "V">>,
        <<7794, "M", <<7795>>>>, <<7795, "V">>, <<7796, "M", <<7797>>>>, <<7797, "V">>,
        <<7798, "M", <<7799>>>>, <<7799, "V">>, <<7800, "M", <<7801>>>>, <<7801, "V">>,
        <<7802, "M", <<7803>>>>, <<7803, "V">>, <<7804, "M", <<7805>>>>, <<7805, "V">>,
        <<7806, "M", <<7807>>>>, <<7807, "V">>, <<7808, "M", <<7809>>>>, <<7809, "V">>,
        <<7810, "M", <<7811>>>>, <<7811, "V">>, <<7812, "M", <<7813>>>>, <<7813, "V">>,
        <<7814, "M", <<7815>>>>, <<7815, "V">>, <<7816, "M", <<7817>>>>, <<7817, "V">>,
        <<7818, "M", <<7819>>>>, <<7819, "V">>, <<7820, "M", <<7821>>>>, <<7821, "V">>,
        <<7822, "M", <<7823>>>>, <<7823, "V">>, <<7824, "M", <<7825>>>>, <<7825, "V">>,
        <<7826, "M", <<7827>>>>, <<7827, "V">>, <<7828, "M", <<7829>>>>, <<7829, "V">>,
        <<7834, "M", <<97, 702>>>>, <<7835, "M", <<7777>>>>, <<7836, "V">>,
        <<7838, "M", <<115, 115>>>>, <<7839, "V">>, <<7840, "M", <<7841>>>>, <<7841, "V">>,
        <<7842, "M", <<7843>>>>, <<7843, "V">>, <<7844, "M", <<7845>>>>, <<7845, "V">>,
        <<7846, "M", <<7847>>>>, <<7847, "V">>, <<7848, "M", <<7849>>>>, <<7849, "V">>,
        <<7850, "M", <<7851>>>>, <<7851, "V">>, <<7852, "M", <<7853>>>>, <<7853, "V">>,
        <<7854, "M", <<7855>>>>, <<7855, "V">>, <<7856, "M", <<7857>>>>, <<7857, "V">>,
        <<7858, "M", <<7859>>>>, <<7859, "V">>, <<7860, "M", <<7861>>>>, <<7861, "V">>,
        <<7862, "M", <<7863>>>>, <<7863, "V">>, <<7864, "M", <<7865>>>>, <<7865, "V">>,
        <<7866, "M", <<7867>>>>, <<7867, "V">>, <<7868, "M", <<7869>>>>, <<7869, "V">>,
        <<7870, "M", <<7871>>>>, <<7871, "V">>, <<7872, "M", <<7873>>>>, <<7873, "V">>,
        <<7874, "M", <<7875>>>>, <<7875, "V">>, <<7876, "M", <<7877>>>>, <<7877, "V">>,
        <<7878, "M", <<7879>>>>, <<7879, "V">>, <<7880, "M", <<7881>>>>, <<7881, "V">>,
        <<7882, "M", <<7883>>>>, <<7883, "V">>, <<7884, "M", <<7885>>>>, <<7885, "V">>,
        <<7886, "M", <<7887>>>>, <<7887, "V">>, <<7888, "M", <<7889>>>>, <<7889, "V">>,
        <<7890, "M", <<7891>>>>, <<7891, "V">>, <<7892, "M", <<7893>>>>, <<7893, "V">>,
        <<7894, "M", <<7895>>>>, <<7895, "V">>, <<7896, "M", <<7897>>>>, <<7897, "V">>,
        <<7898, "M", <<7899>>>>, <<7899, "V">>, <<7900, "M", <<7901>>>>, <<7901, "V">>,
        <<7902, "M", <<7903>>>>, <<7903, "V">>, <<7904, "M", <<7905>>>>, <<7905, "V">>,
        <<7906, "M", <<7907>>>>, <<7907, "V">>, <<7908, "M", <<7909>>>>, <<7909, "V">>,
        <<7910, "M", <<7911>>>>, <<7911, "V">>, <<7912, "M", <<7913>>>>, <<7913, "V">>,
        <<7914, "M", <<7915>>>>, <<7915, "V">>, <<7916, "M", <<7917>>>>, <<7917, "V">>,
        <<7918, "M", <<7919>>>>, <<7919, "V">>, <<7920, "M", <<7921>>>>, <<7921, "V">>,
        <<7922, "M", <<7923>>>>, <<7923, "V">>, <<7924, "M", <<7925>>>>, <<7925, "V">>,
        <<7926, "M", <<7927>>>>, <<7927, "V">>, <<7928, "M", <<7929>>>>, <<7929, "V">>,
        <<7930, "M", <<7931>>>>, <<7931, "V">>, <<7932, "M", <<7933>>>>, <<7933, "V">>,
        <<7934, "M", <<7935>>>>, <<7935, "V">>, <<7944, "M", <<7936>>>>,
        <<7945, "M", <<7937>>>>, <<7946, "M", <<7938>>>>, <<7947, "M", <<7939>>>>,
        <<7948, "M", <<7940>>>>, <<7949, "M", <<7941>>>>, <<7950, "M", <<7942>>>>,
        <<7951, "M", <<7943>>>>, <<7952, "V">>, <<7958, "X">>, <<7960, "M", <<7952>>>>,
        <<7961, "M", <<7953>>>>, <<7962, "M", <<7954>>>>, <<7963, "M", <<7955>>>>,
        <<7964, "M", <<7956>>>>, <<7965, "M", <<7957>>>>, <<7966, "X">>, <<7968, "V">>,
        <<7976, "M", <<7968>>>>, <<7977, "M", <<7969>>>>, <<7978, "M", <<7970>>>>,
        <<7979, "M", <<7971>>>>, <<7980, "M", <<7972>>>>, <<7981, "M", <<7973>>>>,
        <<7982, "M", <<7974>>>>, <<7983, "M", <<7975>>>>, <<7984, "V">>,
        <<7992, "M", <<7984>>>>, <<7993, "M", <<7985>>>>, <<7994, "M", <<7986>>>>,
        <<7995, "M", <<7987>>>>, <<7996, "M", <<7988>>>>, <<7997, "M", <<7989>>>>,
        <<7998, "M", <<7990>>>>, <<7999, "M", <<7991>>>>, <<8000, "V">>, <<8006, "X">>,
        <<8008, "M", <<8000>>>>, <<8009, "M", <<8001>>>>, <<8010, "M", <<8002>>>>,
        <<8011, "M", <<8003>>>>, <<8012, "M", <<8004>>>>, <<8013, "M", <<8005>>>>,
        <<8014, "X">>, <<8016, "V">>, <<8024, "X">>, <<8025, "M", <<8017>>>>, <<8026, "X">>,
        <<8027, "M", <<8019>>>>, <<8028, "X">>, <<8029, "M", <<8021>>>>, <<8030, "X">>,
        <<8031, "M", <<8023>>>>, <<8032, "V">>, <<8040, "M", <<8032>>>>,
        <<8041, "M", <<8033>>>>, <<8042, "M", <<8034>>>>, <<8043, "M", <<8035>>>>,
        <<8044, "M", <<8036>>>>, <<8045, "M", <<8037>>>>, <<8046, "M", <<8038>>>>,
        <<8047, "M", <<8039>>>>, <<8048, "V">>, <<8049, "M", <<940>>>>, <<8050, "V">>,
        <<8051, "M", <<941>>>>, <<8052, "V">>, <<8053, "M", <<942>>>>, <<8054, "V">>,
        <<8055, "M", <<943>>>>, <<8056, "V">>, <<8057, "M", <<972>>>>, <<8058, "V">>,
        <<8059, "M", <<973>>>>, <<8060, "V">>, <<8061, "M", <<974>>>>, <<8062, "X">>,
        <<8064, "M", <<7936, 953>>>>, <<8065, "M", <<7937, 953>>>>,
        <<8066, "M", <<7938, 953>>>>, <<8067, "M", <<7939, 953>>>>,
        <<8068, "M", <<7940, 953>>>>, <<8069, "M", <<7941, 953>>>>,
        <<8070, "M", <<7942, 953>>>>, <<8071, "M", <<7943, 953>>>>,
        <<8072, "M", <<7936, 953>>>>, <<8073, "M", <<7937, 953>>>>,
        <<8074, "M", <<7938, 953>>>>, <<8075, "M", <<7939, 953>>>>,
        <<8076, "M", <<7940, 953>>>>, <<8077, "M", <<7941, 953>>>>,
        <<8078, "M", <<7942, 953>>>>, <<8079, "M", <<7943, 953>>>>,
        <<8080, "M", <<7968, 953>>>>, <<8081, "M", <<7969, 953>>>>,
        <<8082, "M", <<7970, 953>>>>, <<8083, "M", <<7971, 953>>>>,
        <<8084, "M", <<7972, 953>>>>, <<8085, "M", <<7973, 953>>>>,
        <<8086, "M", <<7974, 953>>>>, <<8087, "M", <<7975, 953>>>>,
        <<8088, "M", <<7968, 953>>>>, <<8089, "M", <<7969, 953>>>>,
        <<8090, "M", <<7970, 953>>>>, <<8091, "M", <<7971, 953>>>>,
        <<8092, "M", <<7972, 953>>>>, <<8093, "M", <<7973, 953>>>>,
        <<8094, "M", <<7974, 953>>>>, <<8095, "M", <<7975, 953>>>>,
        <<8096, "M", <<8032, 953>>>>, <<8097, "M", <<8033, 953>>>>,
        <<8098, "M", <<8034, 953>>>>, <<8099, "M", <<8035, 953>>>>,
        <<8100, "M", <<8036, 953>>>>, <<8101, "M", <<8037, 953>>>>,
        <<8102, "M", <<8038, 953>>>>, <<8103, "M", <<8039, 953>>>>,
        <<8104, "M", <<8032, 953>>>>, <<8105, "M", <<8033, 953>>>>,
        <<8106, "M", <<8034, 953>>>>, <<8107, "M", <<8035, 953>>>>,
        <<8108, "M", <<8036, 953>>>>, <<8109, "M", <<8037, 953>>>>,
        <<8110, "M", <<8038, 953>>>>, <<8111, "M", <<8039, 953>>>>, <<8112, "V">>,
        <<8114, "M", <<8048, 953>>>>, <<8115, "M", <<945, 953>>>>, <<8116, "M", <<940, 953>>>>,
        <<8117, "X">>, <<8118, "V">>, <<8119, "M", <<8118, 953>>>>, <<8120, "M", <<8112>>>>,
        <<8121, "M", <<8113>>>>, <<8122, "M", <<8048>>>>, <<8123, "M", <<940>>>>,
        <<8124, "M", <<945, 953>>>>, <<8125, "M", <<32, 787>>>>, <<8126, "M", <<953>>>>,
        <<8127, "M", <<32, 787>>>>, <<8128, "M", <<32, 834>>>>, <<8129, "M", <<32, 776, 834>>>>,
        <<8130, "M", <<8052, 953>>>>, <<8131, "M", <<951, 953>>>>, <<8132, "M", <<942, 953>>>>,
        <<8133, "X">>, <<8134, "V">>, <<8135, "M", <<8134, 953>>>>, <<8136, "M", <<8050>>>>,
        <<8137, "M", <<941>>>>, <<8138, "M", <<8052>>>>, <<8139, "M", <<942>>>>,
        <<8140, "M", <<951, 953>>>>, <<8141, "M", <<32, 787, 768>>>>,
        <<8142, "M", <<32, 787, 769>>>>, <<8143, "M", <<32, 787, 834>>>>, <<8144, "V">>,
        <<8147, "M", <<912>>>>, <<8148, "X">>, <<8150, "V">>, <<8152, "M", <<8144>>>>,
        <<8153, "M", <<8145>>>>, <<8154, "M", <<8054>>>>, <<8155, "M", <<943>>>>, <<8156, "X">>,
        <<8157, "M", <<32, 788, 768>>>>, <<8158, "M", <<32, 788, 769>>>>,
        <<8159, "M", <<32, 788, 834>>>>, <<8160, "V">>, <<8163, "M", <<944>>>>, <<8164, "V">>,
        <<8168, "M", <<8160>>>>, <<8169, "M", <<8161>>>>, <<8170, "M", <<8058>>>>,
        <<8171, "M", <<973>>>>, <<8172, "M", <<8165>>>>, <<8173, "M", <<32, 776, 768>>>>,
        <<8174, "M", <<32, 776, 769>>>>, <<8175, "M", <<96>>>>, <<8176, "X">>,
        <<8178, "M", <<8060, 953>>>>, <<8179, "M", <<969, 953>>>>, <<8180, "M", <<974, 953>>>>,
        <<8181, "X">>, <<8182, "V">>, <<8183, "M", <<8182, 953>>>>, <<8184, "M", <<8056>>>>,
        <<8185, "M", <<972>>>>, <<8186, "M", <<8060>>>>, <<8187, "M", <<974>>>>,
        <<8188, "M", <<969, 953>>>>, <<8189, "M", <<32, 769>>>>, <<8190, "M", <<32, 788>>>>,
        <<8191, "X">>, <<8192, "M", <<32>>>>, <<8203, "I">>, <<8204, "V">>, <<8206, "X">>,
        <<8208, "V">>, <<8209, "M", <<8208>>>>, <<8210, "V">>, <<8215, "M", <<32, 819>>>>,
        <<8216, "V">>, <<8228, "X">>, <<8231, "V">>, <<8232, "X">>, <<8239, "M", <<32>>>>,
        <<8240, "V">>, <<8243, "M", <<8242, 8242>>>>, <<8244, "M", <<8242, 8242, 8242>>>>,
        <<8245, "V">>, <<8246, "M", <<8245, 8245>>>>, <<8247, "M", <<8245, 8245, 8245>>>>,
        <<8248, "V">>, <<8252, "M", <<33, 33>>>>, <<8253, "V">>, <<8254, "M", <<32, 773>>>>,
        <<8255, "V">>, <<8263, "M", <<63, 63>>>>, <<8264, "M", <<63, 33>>>>,
        <<8265, "M", <<33, 63>>>>, <<8266, "V">>, <<8279, "M", <<8242, 8242, 8242, 8242>>>>,
        <<8280, "V">>, <<8287, "M", <<32>>>>, <<8288, "I">>, <<8289, "X">>, <<8292, "I">>,
        <<8293, "X">>, <<8304, "M", <<48>>>>, <<8305, "M", <<105>>>>, <<8306, "X">>,
        <<8308, "M", <<52>>>>, <<8309, "M", <<53>>>>, <<8310, "M", <<54>>>>,
        <<8311, "M", <<55>>>>, <<8312, "M", <<56>>>>, <<8313, "M", <<57>>>>,
        <<8314, "M", <<43>>>>, <<8315, "M", <<8722>>>>, <<8316, "M", <<61>>>>,
        <<8317, "M", <<40>>>>, <<8318, "M", <<41>>>>, <<8319, "M", <<110>>>>,
        <<8320, "M", <<48>>>>, <<8321, "M", <<49>>>>, <<8322, "M", <<50>>>>,
        <<8323, "M", <<51>>>>, <<8324, "M", <<52>>>>, <<8325, "M", <<53>>>>,
        <<8326, "M", <<54>>>>, <<8327, "M", <<55>>>>, <<8328, "M", <<56>>>>,
        <<8329, "M", <<57>>>>, <<8330, "M", <<43>>>>, <<8331, "M", <<8722>>>>,
        <<8332, "M", <<61>>>>, <<8333, "M", <<40>>>>, <<8334, "M", <<41>>>>, <<8335, "X">>,
        <<8336, "M", <<97>>>>, <<8337, "M", <<101>>>>, <<8338, "M", <<111>>>>,
        <<8339, "M", <<120>>>>, <<8340, "M", <<601>>>>, <<8341, "M", <<104>>>>,
        <<8342, "M", <<107>>>>, <<8343, "M", <<108>>>>, <<8344, "M", <<109>>>>,
        <<8345, "M", <<110>>>>, <<8346, "M", <<112>>>>, <<8347, "M", <<115>>>>,
        <<8348, "M", <<116>>>>, <<8349, "X">>, <<8352, "V">>, <<8360, "M", <<114, 115>>>>,
        <<8361, "V">>, <<8385, "X">>, <<8400, "V">>, <<8433, "X">>,
        <<8448, "M", <<97, 47, 99>>>>, <<8449, "M", <<97, 47, 115>>>>, <<8450, "M", <<99>>>>,
        <<8451, "M", <<176, 99>>>>, <<8452, "V">>, <<8453, "M", <<99, 47, 111>>>>,
        <<8454, "M", <<99, 47, 117>>>>, <<8455, "M", <<603>>>>, <<8456, "V">>,
        <<8457, "M", <<176, 102>>>>, <<8458, "M", <<103>>>>, <<8459, "M", <<104>>>>,
        <<8463, "M", <<295>>>>, <<8464, "M", <<105>>>>, <<8466, "M", <<108>>>>, <<8468, "V">>,
        <<8469, "M", <<110>>>>, <<8470, "M", <<110, 111>>>>, <<8471, "V">>,
        <<8473, "M", <<112>>>>, <<8474, "M", <<113>>>>, <<8475, "M", <<114>>>>, <<8478, "V">>,
        <<8480, "M", <<115, 109>>>>, <<8481, "M", <<116, 101, 108>>>>,
        <<8482, "M", <<116, 109>>>>, <<8483, "V">>, <<8484, "M", <<122>>>>, <<8485, "V">>,
        <<8486, "M", <<969>>>>, <<8487, "V">>, <<8488, "M", <<122>>>>, <<8489, "V">>,
        <<8490, "M", <<107>>>>, <<8491, "M", <<229>>>>, <<8492, "M", <<98>>>>,
        <<8493, "M", <<99>>>>, <<8494, "V">>, <<8495, "M", <<101>>>>, <<8497, "M", <<102>>>>,
        <<8498, "X">>, <<8499, "M", <<109>>>>, <<8500, "M", <<111>>>>, <<8501, "M", <<1488>>>>,
        <<8502, "M", <<1489>>>>, <<8503, "M", <<1490>>>>, <<8504, "M", <<1491>>>>,
        <<8505, "M", <<105>>>>, <<8506, "V">>, <<8507, "M", <<102, 97, 120>>>>,
        <<8508, "M", <<960>>>>, <<8509, "M", <<947>>>>, <<8511, "M", <<960>>>>,
        <<8512, "M", <<8721>>>>, <<8513, "V">>, <<8517, "M", <<100>>>>, <<8519, "M", <<101>>>>,
        <<8520, "M", <<105>>>>, <<8521, "M", <<106>>>>, <<8522, "V">>,
        <<8528, "M", <<49, 8260, 55>>>>, <<8529, "M", <<49, 8260, 57>>>>,
        <<8530, "M", <<49, 8260, 49, 48>>>>, <<8531, "M", <<49, 8260, 51>>>>,
        <<8532, "M", <<50, 8260, 51>>>>, <<8533, "M", <<49, 8260, 53>>>>,
        <<8534, "M", <<50, 8260, 53>>>>, <<8535, "M", <<51, 8260, 53>>>>,
        <<8536, "M", <<52, 8260, 53>>>>, <<8537, "M", <<49, 8260, 54>>>>,
        <<8538, "M", <<53, 8260, 54>>>>, <<8539, "M", <<49, 8260, 56>>>>,
        <<8540, "M", <<51, 8260, 56>>>>, <<8541, "M", <<53, 8260, 56>>>>,
        <<8542, "M", <<55, 8260, 56>>>>, <<8543, "M", <<49, 8260>>>>, <<8544, "M", <<105>>>>,
        <<8545, "M", <<105, 105>>>>, <<8546, "M", <<105, 105, 105>>>>,
        <<8547, "M", <<105, 118>>>>, <<8548, "M", <<118>>>>, <<8549, "M", <<118, 105>>>>,
        <<8550, "M", <<118, 105, 105>>>>, <<8551, "M", <<118, 105, 105, 105>>>>,
        <<8552, "M", <<105, 120>>>>, <<8553, "M", <<120>>>>, <<8554, "M", <<120, 105>>>>,
        <<8555, "M", <<120, 105, 105>>>>, <<8556, "M", <<108>>>>, <<8557, "M", <<99>>>>,
        <<8558, "M", <<100>>>>, <<8559, "M", <<109>>>>, <<8560, "M", <<105>>>>,
        <<8561, "M", <<105, 105>>>>, <<8562, "M", <<105, 105, 105>>>>,
        <<8563, "M", <<105, 118>>>>, <<8564, "M", <<118>>>>, <<8565, "M", <<118, 105>>>>,
        <<8566, "M", <<118, 105, 105>>>>, <<8567, "M", <<118, 105, 105, 105>>>>,
        <<8568, "M", <<105, 120>>>>, <<8569, "M", <<120>>>>, <<8570, "M", <<120, 105>>>>,
        <<8571, "M", <<120, 105, 105>>>>, <<8572, "M", <<108>>>>, <<8573, "M", <<99>>>>,
        <<8574, "M", <<100>>>>, <<8575, "M", <<109>>>>, <<8576, "V">>, <<8579, "X">>,
        <<8580, "V">>, <<8585, "M", <<48, 8260, 51>>>>, <<8586, "V">>, <<8588, "X">>,
        <<8592, "V">>, <<8748, "M", <<8747, 8747>>>>, <<8749, "M", <<8747, 8747, 8747>>>>,
        <<8750, "V">>, <<8751, "M", <<8750, 8750>>>>, <<8752, "M", <<8750, 8750, 8750>>>>,
        <<8753, "V">>, <<9001, "M", <<12296>>>>, <<9002, "M", <<12297>>>>, <<9003, "V">>,
        <<9255, "X">>, <<9280, "V">>, <<9291, "X">>, <<9312, "M", <<49>>>>,
        <<9313, "M", <<50>>>>, <<9314, "M", <<51>>>>, <<9315, "M", <<52>>>>,
        <<9316, "M", <<53>>>>, <<9317, "M", <<54>>>>, <<9318, "M", <<55>>>>,
        <<9319, "M", <<56>>>>, <<9320, "M", <<57>>>>, <<9321, "M", <<49, 48>>>>,
        <<9322, "M", <<49, 49>>>>, <<9323, "M", <<49, 50>>>>, <<9324, "M", <<49, 51>>>>,
        <<9325, "M", <<49, 52>>>>, <<9326, "M", <<49, 53>>>>, <<9327, "M", <<49, 54>>>>,
        <<9328, "M", <<49, 55>>>>, <<9329, "M", <<49, 56>>>>, <<9330, "M", <<49, 57>>>>,
        <<9331, "M", <<50, 48>>>>, <<9332, "M", <<40, 49, 41>>>>, <<9333, "M", <<40, 50, 41>>>>,
        <<9334, "M", <<40, 51, 41>>>>, <<9335, "M", <<40, 52, 41>>>>,
        <<9336, "M", <<40, 53, 41>>>>, <<9337, "M", <<40, 54, 41>>>>,
        <<9338, "M", <<40, 55, 41>>>>, <<9339, "M", <<40, 56, 41>>>>,
        <<9340, "M", <<40, 57, 41>>>>, <<9341, "M", <<40, 49, 48, 41>>>>,
        <<9342, "M", <<40, 49, 49, 41>>>>, <<9343, "M", <<40, 49, 50, 41>>>>,
        <<9344, "M", <<40, 49, 51, 41>>>>, <<9345, "M", <<40, 49, 52, 41>>>>,
        <<9346, "M", <<40, 49, 53, 41>>>>, <<9347, "M", <<40, 49, 54, 41>>>>,
        <<9348, "M", <<40, 49, 55, 41>>>>, <<9349, "M", <<40, 49, 56, 41>>>>,
        <<9350, "M", <<40, 49, 57, 41>>>>, <<9351, "M", <<40, 50, 48, 41>>>>, <<9352, "X">>,
        <<9372, "M", <<40, 97, 41>>>>, <<9373, "M", <<40, 98, 41>>>>,
        <<9374, "M", <<40, 99, 41>>>>, <<9375, "M", <<40, 100, 41>>>>,
        <<9376, "M", <<40, 101, 41>>>>, <<9377, "M", <<40, 102, 41>>>>,
        <<9378, "M", <<40, 103, 41>>>>, <<9379, "M", <<40, 104, 41>>>>,
        <<9380, "M", <<40, 105, 41>>>>, <<9381, "M", <<40, 106, 41>>>>,
        <<9382, "M", <<40, 107, 41>>>>, <<9383, "M", <<40, 108, 41>>>>,
        <<9384, "M", <<40, 109, 41>>>>, <<9385, "M", <<40, 110, 41>>>>,
        <<9386, "M", <<40, 111, 41>>>>, <<9387, "M", <<40, 112, 41>>>>,
        <<9388, "M", <<40, 113, 41>>>>, <<9389, "M", <<40, 114, 41>>>>,
        <<9390, "M", <<40, 115, 41>>>>, <<9391, "M", <<40, 116, 41>>>>,
        <<9392, "M", <<40, 117, 41>>>>, <<9393, "M", <<40, 118, 41>>>>,
        <<9394, "M", <<40, 119, 41>>>>, <<9395, "M", <<40, 120, 41>>>>,
        <<9396, "M", <<40, 121, 41>>>>, <<9397, "M", <<40, 122, 41>>>>, <<9398, "M", <<97>>>>,
        <<9399, "M", <<98>>>>, <<9400, "M", <<99>>>>, <<9401, "M", <<100>>>>,
        <<9402, "M", <<101>>>>, <<9403, "M", <<102>>>>, <<9404, "M", <<103>>>>,
        <<9405, "M", <<104>>>>, <<9406, "M", <<105>>>>, <<9407, "M", <<106>>>>,
        <<9408, "M", <<107>>>>, <<9409, "M", <<108>>>>, <<9410, "M", <<109>>>>,
        <<9411, "M", <<110>>>>, <<9412, "M", <<111>>>>, <<9413, "M", <<112>>>>,
        <<9414, "M", <<113>>>>, <<9415, "M", <<114>>>>, <<9416, "M", <<115>>>>,
        <<9417, "M", <<116>>>>, <<9418, "M", <<117>>>>, <<9419, "M", <<118>>>>,
        <<9420, "M", <<119>>>>, <<9421, "M", <<120>>>>, <<9422, "M", <<121>>>>,
        <<9423, "M", <<122>>>>, <<9424, "M", <<97>>>>, <<9425, "M", <<98>>>>,
        <<9426, "M", <<99>>>>, <<9427, "M", <<100>>>>, <<9428, "M", <<101>>>>,
        <<9429, "M", <<102>>>>, <<9430, "M", <<103>>>>, <<9431, "M", <<104>>>>,
        <<9432, "M", <<105>>>>, <<9433, "M", <<106>>>>, <<9434, "M", <<107>>>>,
        <<9435, "M", <<108>>>>, <<9436, "M", <<109>>>>, <<9437, "M", <<110>>>>,
        <<9438, "M", <<111>>>>, <<9439, "M", <<112>>>>, <<9440, "M", <<113>>>>,
        <<9441, "M", <<114>>>>, <<9442, "M", <<115>>>>, <<9443, "M", <<116>>>>,
        <<9444, "M", <<117>>>>, <<9445, "M", <<118>>>>, <<9446, "M", <<119>>>>,
        <<9447, "M", <<120>>>>, <<9448, "M", <<121>>>>, <<9449, "M", <<122>>>>,
        <<9450, "M", <<48>>>>, <<9451, "V">>, <<10764, "M", <<8747, 8747, 8747, 8747>>>>,
        <<10765, "V">>, <<10868, "M", <<58, 58, 61>>>>, <<10869, "M", <<61, 61>>>>,
        <<10870, "M", <<61, 61, 61>>>>, <<10871, "V">>, <<10972, "M", <<10973, 824>>>>,
        <<10973, "V">>, <<11124, "X">>, <<11126, "V">>, <<11158, "X">>, <<11159, "V">>,
        <<11264, "M", <<11312>>>>, <<11265, "M", <<11313>>>>, <<11266, "M", <<11314>>>>,
        <<11267, "M", <<11315>>>>, <<11268, "M", <<11316>>>>, <<11269, "M", <<11317>>>>,
        <<11270, "M", <<11318>>>>, <<11271, "M", <<11319>>>>, <<11272, "M", <<11320>>>>,
        <<11273, "M", <<11321>>>>, <<11274, "M", <<11322>>>>, <<11275, "M", <<11323>>>>,
        <<11276, "M", <<11324>>>>, <<11277, "M", <<11325>>>>, <<11278, "M", <<11326>>>>,
        <<11279, "M", <<11327>>>>, <<11280, "M", <<11328>>>>, <<11281, "M", <<11329>>>>,
        <<11282, "M", <<11330>>>>, <<11283, "M", <<11331>>>>, <<11284, "M", <<11332>>>>,
        <<11285, "M", <<11333>>>>, <<11286, "M", <<11334>>>>, <<11287, "M", <<11335>>>>,
        <<11288, "M", <<11336>>>>, <<11289, "M", <<11337>>>>, <<11290, "M", <<11338>>>>,
        <<11291, "M", <<11339>>>>, <<11292, "M", <<11340>>>>, <<11293, "M", <<11341>>>>,
        <<11294, "M", <<11342>>>>, <<11295, "M", <<11343>>>>, <<11296, "M", <<11344>>>>,
        <<11297, "M", <<11345>>>>, <<11298, "M", <<11346>>>>, <<11299, "M", <<11347>>>>,
        <<11300, "M", <<11348>>>>, <<11301, "M", <<11349>>>>, <<11302, "M", <<11350>>>>,
        <<11303, "M", <<11351>>>>, <<11304, "M", <<11352>>>>, <<11305, "M", <<11353>>>>,
        <<11306, "M", <<11354>>>>, <<11307, "M", <<11355>>>>, <<11308, "M", <<11356>>>>,
        <<11309, "M", <<11357>>>>, <<11310, "M", <<11358>>>>, <<11311, "M", <<11359>>>>,
        <<11312, "V">>, <<11360, "M", <<11361>>>>, <<11361, "V">>, <<11362, "M", <<619>>>>,
        <<11363, "M", <<7549>>>>, <<11364, "M", <<637>>>>, <<11365, "V">>,
        <<11367, "M", <<11368>>>>, <<11368, "V">>, <<11369, "M", <<11370>>>>, <<11370, "V">>,
        <<11371, "M", <<11372>>>>, <<11372, "V">>, <<11373, "M", <<593>>>>,
        <<11374, "M", <<625>>>>, <<11375, "M", <<592>>>>, <<11376, "M", <<594>>>>,
        <<11377, "V">>, <<11378, "M", <<11379>>>>, <<11379, "V">>, <<11381, "M", <<11382>>>>,
        <<11382, "V">>, <<11388, "M", <<106>>>>, <<11389, "M", <<118>>>>,
        <<11390, "M", <<575>>>>, <<11391, "M", <<576>>>>, <<11392, "M", <<11393>>>>,
        <<11393, "V">>, <<11394, "M", <<11395>>>>, <<11395, "V">>, <<11396, "M", <<11397>>>>,
        <<11397, "V">>, <<11398, "M", <<11399>>>>, <<11399, "V">>, <<11400, "M", <<11401>>>>,
        <<11401, "V">>, <<11402, "M", <<11403>>>>, <<11403, "V">>, <<11404, "M", <<11405>>>>,
        <<11405, "V">>, <<11406, "M", <<11407>>>>, <<11407, "V">>, <<11408, "M", <<11409>>>>,
        <<11409, "V">>, <<11410, "M", <<11411>>>>, <<11411, "V">>, <<11412, "M", <<11413>>>>,
        <<11413, "V">>, <<11414, "M", <<11415>>>>, <<11415, "V">>, <<11416, "M", <<11417>>>>,
        <<11417, "V">>, <<11418, "M", <<11419>>>>, <<11419, "V">>, <<11420, "M", <<11421>>>>,
        <<11421, "V">>, <<11422, "M", <<11423>>>>, <<11423, "V">>, <<11424, "M", <<11425>>>>,
        <<11425, "V">>, <<11426, "M", <<11427>>>>, <<11427, "V">>, <<11428, "M", <<11429>>>>,
        <<11429, "V">>, <<11430, "M", <<11431>>>>, <<11431, "V">>, <<11432, "M", <<11433>>>>,
        <<11433, "V">>, <<11434, "M", <<11435>>>>, <<11435, "V">>, <<11436, "M", <<11437>>>>,
        <<11437, "V">>, <<11438, "M", <<11439>>>>, <<11439, "V">>, <<11440, "M", <<11441>>>>,
        <<11441, "V">>, <<11442, "M", <<11443>>>>, <<11443, "V">>, <<11444, "M", <<11445>>>>,
        <<11445, "V">>, <<11446, "M", <<11447>>>>, <<11447, "V">>, <<11448, "M", <<11449>>>>,
        <<11449, "V">>, <<11450, "M", <<11451>>>>, <<11451, "V">>, <<11452, "M", <<11453>>>>,
        <<11453, "V">>, <<11454, "M", <<11455>>>>, <<11455, "V">>, <<11456, "M", <<11457>>>>,
        <<11457, "V">>, <<11458, "M", <<11459>>>>, <<11459, "V">>, <<11460, "M", <<11461>>>>,
        <<11461, "V">>, <<11462, "M", <<11463>>>>, <<11463, "V">>, <<11464, "M", <<11465>>>>,
        <<11465, "V">>, <<11466, "M", <<11467>>>>, <<11467, "V">>, <<11468, "M", <<11469>>>>,
        <<11469, "V">>, <<11470, "M", <<11471>>>>, <<11471, "V">>, <<11472, "M", <<11473>>>>,
        <<11473, "V">>, <<11474, "M", <<11475>>>>, <<11475, "V">>, <<11476, "M", <<11477>>>>,
        <<11477, "V">>, <<11478, "M", <<11479>>>>, <<11479, "V">>, <<11480, "M", <<11481>>>>,
        <<11481, "V">>, <<11482, "M", <<11483>>>>, <<11483, "V">>, <<11484, "M", <<11485>>>>,
        <<11485, "V">>, <<11486, "M", <<11487>>>>, <<11487, "V">>, <<11488, "M", <<11489>>>>,
        <<11489, "V">>, <<11490, "M", <<11491>>>>, <<11491, "V">>, <<11499, "M", <<11500>>>>,
        <<11500, "V">>, <<11501, "M", <<11502>>>>, <<11502, "V">>, <<11506, "M", <<11507>>>>,
        <<11507, "V">>, <<11508, "X">>, <<11513, "V">>, <<11558, "X">>, <<11559, "V">>,
        <<11560, "X">>, <<11565, "V">>, <<11566, "X">>, <<11568, "V">>, <<11624, "X">>,
        <<11631, "M", <<11617>>>>, <<11632, "V">>, <<11633, "X">>, <<11647, "V">>,
        <<11671, "X">>, <<11680, "V">>, <<11687, "X">>, <<11688, "V">>, <<11695, "X">>,
        <<11696, "V">>, <<11703, "X">>, <<11704, "V">>, <<11711, "X">>, <<11712, "V">>,
        <<11719, "X">>, <<11720, "V">>, <<11727, "X">>, <<11728, "V">>, <<11735, "X">>,
        <<11736, "V">>, <<11743, "X">>, <<11744, "V">>, <<11870, "X">>, <<11904, "V">>,
        <<11930, "X">>, <<11931, "V">>, <<11935, "M", <<27597>>>>, <<11936, "V">>,
        <<12019, "M", <<40863>>>>, <<12020, "X">>, <<12032, "M", <<19968>>>>,
        <<12033, "M", <<20008>>>>, <<12034, "M", <<20022>>>>, <<12035, "M", <<20031>>>>,
        <<12036, "M", <<20057>>>>, <<12037, "M", <<20101>>>>, <<12038, "M", <<20108>>>>,
        <<12039, "M", <<20128>>>>, <<12040, "M", <<20154>>>>, <<12041, "M", <<20799>>>>,
        <<12042, "M", <<20837>>>>, <<12043, "M", <<20843>>>>, <<12044, "M", <<20866>>>>,
        <<12045, "M", <<20886>>>>, <<12046, "M", <<20907>>>>, <<12047, "M", <<20960>>>>,
        <<12048, "M", <<20981>>>>, <<12049, "M", <<20992>>>>, <<12050, "M", <<21147>>>>,
        <<12051, "M", <<21241>>>>, <<12052, "M", <<21269>>>>, <<12053, "M", <<21274>>>>,
        <<12054, "M", <<21304>>>>, <<12055, "M", <<21313>>>>, <<12056, "M", <<21340>>>>,
        <<12057, "M", <<21353>>>>, <<12058, "M", <<21378>>>>, <<12059, "M", <<21430>>>>,
        <<12060, "M", <<21448>>>>, <<12061, "M", <<21475>>>>, <<12062, "M", <<22231>>>>,
        <<12063, "M", <<22303>>>>, <<12064, "M", <<22763>>>>, <<12065, "M", <<22786>>>>,
        <<12066, "M", <<22794>>>>, <<12067, "M", <<22805>>>>, <<12068, "M", <<22823>>>>,
        <<12069, "M", <<22899>>>>, <<12070, "M", <<23376>>>>, <<12071, "M", <<23424>>>>,
        <<12072, "M", <<23544>>>>, <<12073, "M", <<23567>>>>, <<12074, "M", <<23586>>>>,
        <<12075, "M", <<23608>>>>, <<12076, "M", <<23662>>>>, <<12077, "M", <<23665>>>>,
        <<12078, "M", <<24027>>>>, <<12079, "M", <<24037>>>>, <<12080, "M", <<24049>>>>,
        <<12081, "M", <<24062>>>>, <<12082, "M", <<24178>>>>, <<12083, "M", <<24186>>>>,
        <<12084, "M", <<24191>>>>, <<12085, "M", <<24308>>>>, <<12086, "M", <<24318>>>>,
        <<12087, "M", <<24331>>>>, <<12088, "M", <<24339>>>>, <<12089, "M", <<24400>>>>,
        <<12090, "M", <<24417>>>>, <<12091, "M", <<24435>>>>, <<12092, "M", <<24515>>>>,
        <<12093, "M", <<25096>>>>, <<12094, "M", <<25142>>>>, <<12095, "M", <<25163>>>>,
        <<12096, "M", <<25903>>>>, <<12097, "M", <<25908>>>>, <<12098, "M", <<25991>>>>,
        <<12099, "M", <<26007>>>>, <<12100, "M", <<26020>>>>, <<12101, "M", <<26041>>>>,
        <<12102, "M", <<26080>>>>, <<12103, "M", <<26085>>>>, <<12104, "M", <<26352>>>>,
        <<12105, "M", <<26376>>>>, <<12106, "M", <<26408>>>>, <<12107, "M", <<27424>>>>,
        <<12108, "M", <<27490>>>>, <<12109, "M", <<27513>>>>, <<12110, "M", <<27571>>>>,
        <<12111, "M", <<27595>>>>, <<12112, "M", <<27604>>>>, <<12113, "M", <<27611>>>>,
        <<12114, "M", <<27663>>>>, <<12115, "M", <<27668>>>>, <<12116, "M", <<27700>>>>,
        <<12117, "M", <<28779>>>>, <<12118, "M", <<29226>>>>, <<12119, "M", <<29238>>>>,
        <<12120, "M", <<29243>>>>, <<12121, "M", <<29247>>>>, <<12122, "M", <<29255>>>>,
        <<12123, "M", <<29273>>>>, <<12124, "M", <<29275>>>>, <<12125, "M", <<29356>>>>,
        <<12126, "M", <<29572>>>>, <<12127, "M", <<29577>>>>, <<12128, "M", <<29916>>>>,
        <<12129, "M", <<29926>>>>, <<12130, "M", <<29976>>>>, <<12131, "M", <<29983>>>>,
        <<12132, "M", <<29992>>>>, <<12133, "M", <<30000>>>>, <<12134, "M", <<30091>>>>,
        <<12135, "M", <<30098>>>>, <<12136, "M", <<30326>>>>, <<12137, "M", <<30333>>>>,
        <<12138, "M", <<30382>>>>, <<12139, "M", <<30399>>>>, <<12140, "M", <<30446>>>>,
        <<12141, "M", <<30683>>>>, <<12142, "M", <<30690>>>>, <<12143, "M", <<30707>>>>,
        <<12144, "M", <<31034>>>>, <<12145, "M", <<31160>>>>, <<12146, "M", <<31166>>>>,
        <<12147, "M", <<31348>>>>, <<12148, "M", <<31435>>>>, <<12149, "M", <<31481>>>>,
        <<12150, "M", <<31859>>>>, <<12151, "M", <<31992>>>>, <<12152, "M", <<32566>>>>,
        <<12153, "M", <<32593>>>>, <<12154, "M", <<32650>>>>, <<12155, "M", <<32701>>>>,
        <<12156, "M", <<32769>>>>, <<12157, "M", <<32780>>>>, <<12158, "M", <<32786>>>>,
        <<12159, "M", <<32819>>>>, <<12160, "M", <<32895>>>>, <<12161, "M", <<32905>>>>,
        <<12162, "M", <<33251>>>>, <<12163, "M", <<33258>>>>, <<12164, "M", <<33267>>>>,
        <<12165, "M", <<33276>>>>, <<12166, "M", <<33292>>>>, <<12167, "M", <<33307>>>>,
        <<12168, "M", <<33311>>>>, <<12169, "M", <<33390>>>>, <<12170, "M", <<33394>>>>,
        <<12171, "M", <<33400>>>>, <<12172, "M", <<34381>>>>, <<12173, "M", <<34411>>>>,
        <<12174, "M", <<34880>>>>, <<12175, "M", <<34892>>>>, <<12176, "M", <<34915>>>>,
        <<12177, "M", <<35198>>>>, <<12178, "M", <<35211>>>>, <<12179, "M", <<35282>>>>,
        <<12180, "M", <<35328>>>>, <<12181, "M", <<35895>>>>, <<12182, "M", <<35910>>>>,
        <<12183, "M", <<35925>>>>, <<12184, "M", <<35960>>>>, <<12185, "M", <<35997>>>>,
        <<12186, "M", <<36196>>>>, <<12187, "M", <<36208>>>>, <<12188, "M", <<36275>>>>,
        <<12189, "M", <<36523>>>>, <<12190, "M", <<36554>>>>, <<12191, "M", <<36763>>>>,
        <<12192, "M", <<36784>>>>, <<12193, "M", <<36789>>>>, <<12194, "M", <<37009>>>>,
        <<12195, "M", <<37193>>>>, <<12196, "M", <<37318>>>>, <<12197, "M", <<37324>>>>,
        <<12198, "M", <<37329>>>>, <<12199, "M", <<38263>>>>, <<12200, "M", <<38272>>>>,
        <<12201, "M", <<38428>>>>, <<12202, "M", <<38582>>>>, <<12203, "M", <<38585>>>>,
        <<12204, "M", <<38632>>>>, <<12205, "M", <<38737>>>>, <<12206, "M", <<38750>>>>,
        <<12207, "M", <<38754>>>>, <<12208, "M", <<38761>>>>, <<12209, "M", <<38859>>>>,
        <<12210, "M", <<38893>>>>, <<12211, "M", <<38899>>>>, <<12212, "M", <<38913>>>>,
        <<12213, "M", <<39080>>>>, <<12214, "M", <<39131>>>>, <<12215, "M", <<39135>>>>,
        <<12216, "M", <<39318>>>>, <<12217, "M", <<39321>>>>, <<12218, "M", <<39340>>>>,
        <<12219, "M", <<39592>>>>, <<12220, "M", <<39640>>>>, <<12221, "M", <<39647>>>>,
        <<12222, "M", <<39717>>>>, <<12223, "M", <<39727>>>>, <<12224, "M", <<39730>>>>,
        <<12225, "M", <<39740>>>>, <<12226, "M", <<39770>>>>, <<12227, "M", <<40165>>>>,
        <<12228, "M", <<40565>>>>, <<12229, "M", <<40575>>>>, <<12230, "M", <<40613>>>>,
        <<12231, "M", <<40635>>>>, <<12232, "M", <<40643>>>>, <<12233, "M", <<40653>>>>,
        <<12234, "M", <<40657>>>>, <<12235, "M", <<40697>>>>, <<12236, "M", <<40701>>>>,
        <<12237, "M", <<40718>>>>, <<12238, "M", <<40723>>>>, <<12239, "M", <<40736>>>>,
        <<12240, "M", <<40763>>>>, <<12241, "M", <<40778>>>>, <<12242, "M", <<40786>>>>,
        <<12243, "M", <<40845>>>>, <<12244, "M", <<40860>>>>, <<12245, "M", <<40864>>>>,
        <<12246, "X">>, <<12288, "M", <<32>>>>, <<12289, "V">>, <<12290, "M", <<46>>>>,
        <<12291, "V">>, <<12342, "M", <<12306>>>>, <<12343, "V">>, <<12344, "M", <<21313>>>>,
        <<12345, "M", <<21316>>>>, <<12346, "M", <<21317>>>>, <<12347, "V">>, <<12352, "X">>,
        <<12353, "V">>, <<12439, "X">>, <<12441, "V">>, <<12443, "M", <<32, 12441>>>>,
        <<12444, "M", <<32, 12442>>>>, <<12445, "V">>, <<12447, "M", <<12424, 12426>>>>,
        <<12448, "V">>, <<12543, "M", <<12467, 12488>>>>, <<12544, "X">>, <<12549, "V">>,
        <<12592, "X">>, <<12593, "M", <<4352>>>>, <<12594, "M", <<4353>>>>,
        <<12595, "M", <<4522>>>>, <<12596, "M", <<4354>>>>, <<12597, "M", <<4524>>>>,
        <<12598, "M", <<4525>>>>, <<12599, "M", <<4355>>>>, <<12600, "M", <<4356>>>>,
        <<12601, "M", <<4357>>>>, <<12602, "M", <<4528>>>>, <<12603, "M", <<4529>>>>,
        <<12604, "M", <<4530>>>>, <<12605, "M", <<4531>>>>, <<12606, "M", <<4532>>>>,
        <<12607, "M", <<4533>>>>, <<12608, "M", <<4378>>>>, <<12609, "M", <<4358>>>>,
        <<12610, "M", <<4359>>>>, <<12611, "M", <<4360>>>>, <<12612, "M", <<4385>>>>,
        <<12613, "M", <<4361>>>>, <<12614, "M", <<4362>>>>, <<12615, "M", <<4363>>>>,
        <<12616, "M", <<4364>>>>, <<12617, "M", <<4365>>>>, <<12618, "M", <<4366>>>>,
        <<12619, "M", <<4367>>>>, <<12620, "M", <<4368>>>>, <<12621, "M", <<4369>>>>,
        <<12622, "M", <<4370>>>>, <<12623, "M", <<4449>>>>, <<12624, "M", <<4450>>>>,
        <<12625, "M", <<4451>>>>, <<12626, "M", <<4452>>>>, <<12627, "M", <<4453>>>>,
        <<12628, "M", <<4454>>>>, <<12629, "M", <<4455>>>>, <<12630, "M", <<4456>>>>,
        <<12631, "M", <<4457>>>>, <<12632, "M", <<4458>>>>, <<12633, "M", <<4459>>>>,
        <<12634, "M", <<4460>>>>, <<12635, "M", <<4461>>>>, <<12636, "M", <<4462>>>>,
        <<12637, "M", <<4463>>>>, <<12638, "M", <<4464>>>>, <<12639, "M", <<4465>>>>,
        <<12640, "M", <<4466>>>>, <<12641, "M", <<4467>>>>, <<12642, "M", <<4468>>>>,
        <<12643, "M", <<4469>>>>, <<12644, "X">>, <<12645, "M", <<4372>>>>,
        <<12646, "M", <<4373>>>>, <<12647, "M", <<4551>>>>, <<12648, "M", <<4552>>>>,
        <<12649, "M", <<4556>>>>, <<12650, "M", <<4558>>>>, <<12651, "M", <<4563>>>>,
        <<12652, "M", <<4567>>>>, <<12653, "M", <<4569>>>>, <<12654, "M", <<4380>>>>,
        <<12655, "M", <<4573>>>>, <<12656, "M", <<4575>>>>, <<12657, "M", <<4381>>>>,
        <<12658, "M", <<4382>>>>, <<12659, "M", <<4384>>>>, <<12660, "M", <<4386>>>>,
        <<12661, "M", <<4387>>>>, <<12662, "M", <<4391>>>>, <<12663, "M", <<4393>>>>,
        <<12664, "M", <<4395>>>>, <<12665, "M", <<4396>>>>, <<12666, "M", <<4397>>>>,
        <<12667, "M", <<4398>>>>, <<12668, "M", <<4399>>>>, <<12669, "M", <<4402>>>>,
        <<12670, "M", <<4406>>>>, <<12671, "M", <<4416>>>>, <<12672, "M", <<4423>>>>,
        <<12673, "M", <<4428>>>>, <<12674, "M", <<4593>>>>, <<12675, "M", <<4594>>>>,
        <<12676, "M", <<4439>>>>, <<12677, "M", <<4440>>>>, <<12678, "M", <<4441>>>>,
        <<12679, "M", <<4484>>>>, <<12680, "M", <<4485>>>>, <<12681, "M", <<4488>>>>,
        <<12682, "M", <<4497>>>>, <<12683, "M", <<4498>>>>, <<12684, "M", <<4500>>>>,
        <<12685, "M", <<4510>>>>, <<12686, "M", <<4513>>>>, <<12687, "X">>, <<12688, "V">>,
        <<12690, "M", <<19968>>>>, <<12691, "M", <<20108>>>>, <<12692, "M", <<19977>>>>,
        <<12693, "M", <<22235>>>>, <<12694, "M", <<19978>>>>, <<12695, "M", <<20013>>>>,
        <<12696, "M", <<19979>>>>, <<12697, "M", <<30002>>>>, <<12698, "M", <<20057>>>>,
        <<12699, "M", <<19993>>>>, <<12700, "M", <<19969>>>>, <<12701, "M", <<22825>>>>,
        <<12702, "M", <<22320>>>>, <<12703, "M", <<20154>>>>, <<12704, "V">>, <<12772, "X">>,
        <<12784, "V">>, <<12800, "M", <<40, 4352, 41>>>>, <<12801, "M", <<40, 4354, 41>>>>,
        <<12802, "M", <<40, 4355, 41>>>>, <<12803, "M", <<40, 4357, 41>>>>,
        <<12804, "M", <<40, 4358, 41>>>>, <<12805, "M", <<40, 4359, 41>>>>,
        <<12806, "M", <<40, 4361, 41>>>>, <<12807, "M", <<40, 4363, 41>>>>,
        <<12808, "M", <<40, 4364, 41>>>>, <<12809, "M", <<40, 4366, 41>>>>,
        <<12810, "M", <<40, 4367, 41>>>>, <<12811, "M", <<40, 4368, 41>>>>,
        <<12812, "M", <<40, 4369, 41>>>>, <<12813, "M", <<40, 4370, 41>>>>,
        <<12814, "M", <<40, 44032, 41>>>>, <<12815, "M", <<40, 45208, 41>>>>,
        <<12816, "M", <<40, 45796, 41>>>>, <<12817, "M", <<40, 46972, 41>>>>,
        <<12818, "M", <<40, 47560, 41>>>>, <<12819, "M", <<40, 48148, 41>>>>,
        <<12820, "M", <<40, 49324, 41>>>>, <<12821, "M", <<40, 50500, 41>>>>,
        <<12822, "M", <<40, 51088, 41>>>>, <<12823, "M", <<40, 52264, 41>>>>,
        <<12824, "M", <<40, 52852, 41>>>>, <<12825, "M", <<40, 53440, 41>>>>,
        <<12826, "M", <<40, 54028, 41>>>>, <<12827, "M", <<40, 54616, 41>>>>,
        <<12828, "M", <<40, 51452, 41>>>>, <<12829, "M", <<40, 50724, 51204, 41>>>>,
        <<12830, "M", <<40, 50724, 54980, 41>>>>, <<12831, "X">>,
        <<12832, "M", <<40, 19968, 41>>>>, <<12833, "M", <<40, 20108, 41>>>>,
        <<12834, "M", <<40, 19977, 41>>>>, <<12835, "M", <<40, 22235, 41>>>>,
        <<12836, "M", <<40, 20116, 41>>>>, <<12837, "M", <<40, 20845, 41>>>>,
        <<12838, "M", <<40, 19971, 41>>>>, <<12839, "M", <<40, 20843, 41>>>>,
        <<12840, "M", <<40, 20061, 41>>>>, <<12841, "M", <<40, 21313, 41>>>>,
        <<12842, "M", <<40, 26376, 41>>>>, <<12843, "M", <<40, 28779, 41>>>>,
        <<12844, "M", <<40, 27700, 41>>>>, <<12845, "M", <<40, 26408, 41>>>>,
        <<12846, "M", <<40, 37329, 41>>>>, <<12847, "M", <<40, 22303, 41>>>>,
        <<12848, "M", <<40, 26085, 41>>>>, <<12849, "M", <<40, 26666, 41>>>>,
        <<12850, "M", <<40, 26377, 41>>>>, <<12851, "M", <<40, 31038, 41>>>>,
        <<12852, "M", <<40, 21517, 41>>>>, <<12853, "M", <<40, 29305, 41>>>>,
        <<12854, "M", <<40, 36001, 41>>>>, <<12855, "M", <<40, 31069, 41>>>>,
        <<12856, "M", <<40, 21172, 41>>>>, <<12857, "M", <<40, 20195, 41>>>>,
        <<12858, "M", <<40, 21628, 41>>>>, <<12859, "M", <<40, 23398, 41>>>>,
        <<12860, "M", <<40, 30435, 41>>>>, <<12861, "M", <<40, 20225, 41>>>>,
        <<12862, "M", <<40, 36039, 41>>>>, <<12863, "M", <<40, 21332, 41>>>>,
        <<12864, "M", <<40, 31085, 41>>>>, <<12865, "M", <<40, 20241, 41>>>>,
        <<12866, "M", <<40, 33258, 41>>>>, <<12867, "M", <<40, 33267, 41>>>>,
        <<12868, "M", <<21839>>>>, <<12869, "M", <<24188>>>>, <<12870, "M", <<25991>>>>,
        <<12871, "M", <<31631>>>>, <<12872, "V">>, <<12880, "M", <<112, 116, 101>>>>,
        <<12881, "M", <<50, 49>>>>, <<12882, "M", <<50, 50>>>>, <<12883, "M", <<50, 51>>>>,
        <<12884, "M", <<50, 52>>>>, <<12885, "M", <<50, 53>>>>, <<12886, "M", <<50, 54>>>>,
        <<12887, "M", <<50, 55>>>>, <<12888, "M", <<50, 56>>>>, <<12889, "M", <<50, 57>>>>,
        <<12890, "M", <<51, 48>>>>, <<12891, "M", <<51, 49>>>>, <<12892, "M", <<51, 50>>>>,
        <<12893, "M", <<51, 51>>>>, <<12894, "M", <<51, 52>>>>, <<12895, "M", <<51, 53>>>>,
        <<12896, "M", <<4352>>>>, <<12897, "M", <<4354>>>>, <<12898, "M", <<4355>>>>,
        <<12899, "M", <<4357>>>>, <<12900, "M", <<4358>>>>, <<12901, "M", <<4359>>>>,
        <<12902, "M", <<4361>>>>, <<12903, "M", <<4363>>>>, <<12904, "M", <<4364>>>>,
        <<12905, "M", <<4366>>>>, <<12906, "M", <<4367>>>>, <<12907, "M", <<4368>>>>,
        <<12908, "M", <<4369>>>>, <<12909, "M", <<4370>>>>, <<12910, "M", <<44032>>>>,
        <<12911, "M", <<45208>>>>, <<12912, "M", <<45796>>>>, <<12913, "M", <<46972>>>>,
        <<12914, "M", <<47560>>>>, <<12915, "M", <<48148>>>>, <<12916, "M", <<49324>>>>,
        <<12917, "M", <<50500>>>>, <<12918, "M", <<51088>>>>, <<12919, "M", <<52264>>>>,
        <<12920, "M", <<52852>>>>, <<12921, "M", <<53440>>>>, <<12922, "M", <<54028>>>>,
        <<12923, "M", <<54616>>>>, <<12924, "M", <<52280, 44256>>>>,
        <<12925, "M", <<51452, 51032>>>>, <<12926, "M", <<50864>>>>, <<12927, "V">>,
        <<12928, "M", <<19968>>>>, <<12929, "M", <<20108>>>>, <<12930, "M", <<19977>>>>,
        <<12931, "M", <<22235>>>>, <<12932, "M", <<20116>>>>, <<12933, "M", <<20845>>>>,
        <<12934, "M", <<19971>>>>, <<12935, "M", <<20843>>>>, <<12936, "M", <<20061>>>>,
        <<12937, "M", <<21313>>>>, <<12938, "M", <<26376>>>>, <<12939, "M", <<28779>>>>,
        <<12940, "M", <<27700>>>>, <<12941, "M", <<26408>>>>, <<12942, "M", <<37329>>>>,
        <<12943, "M", <<22303>>>>, <<12944, "M", <<26085>>>>, <<12945, "M", <<26666>>>>,
        <<12946, "M", <<26377>>>>, <<12947, "M", <<31038>>>>, <<12948, "M", <<21517>>>>,
        <<12949, "M", <<29305>>>>, <<12950, "M", <<36001>>>>, <<12951, "M", <<31069>>>>,
        <<12952, "M", <<21172>>>>, <<12953, "M", <<31192>>>>, <<12954, "M", <<30007>>>>,
        <<12955, "M", <<22899>>>>, <<12956, "M", <<36969>>>>, <<12957, "M", <<20778>>>>,
        <<12958, "M", <<21360>>>>, <<12959, "M", <<27880>>>>, <<12960, "M", <<38917>>>>,
        <<12961, "M", <<20241>>>>, <<12962, "M", <<20889>>>>, <<12963, "M", <<27491>>>>,
        <<12964, "M", <<19978>>>>, <<12965, "M", <<20013>>>>, <<12966, "M", <<19979>>>>,
        <<12967, "M", <<24038>>>>, <<12968, "M", <<21491>>>>, <<12969, "M", <<21307>>>>,
        <<12970, "M", <<23447>>>>, <<12971, "M", <<23398>>>>, <<12972, "M", <<30435>>>>,
        <<12973, "M", <<20225>>>>, <<12974, "M", <<36039>>>>, <<12975, "M", <<21332>>>>,
        <<12976, "M", <<22812>>>>, <<12977, "M", <<51, 54>>>>, <<12978, "M", <<51, 55>>>>,
        <<12979, "M", <<51, 56>>>>, <<12980, "M", <<51, 57>>>>, <<12981, "M", <<52, 48>>>>,
        <<12982, "M", <<52, 49>>>>, <<12983, "M", <<52, 50>>>>, <<12984, "M", <<52, 51>>>>,
        <<12985, "M", <<52, 52>>>>, <<12986, "M", <<52, 53>>>>, <<12987, "M", <<52, 54>>>>,
        <<12988, "M", <<52, 55>>>>, <<12989, "M", <<52, 56>>>>, <<12990, "M", <<52, 57>>>>,
        <<12991, "M", <<53, 48>>>>, <<12992, "M", <<49, 26376>>>>,
        <<12993, "M", <<50, 26376>>>>, <<12994, "M", <<51, 26376>>>>,
        <<12995, "M", <<52, 26376>>>>, <<12996, "M", <<53, 26376>>>>,
        <<12997, "M", <<54, 26376>>>>, <<12998, "M", <<55, 26376>>>>,
        <<12999, "M", <<56, 26376>>>>, <<13000, "M", <<57, 26376>>>>,
        <<13001, "M", <<49, 48, 26376>>>>, <<13002, "M", <<49, 49, 26376>>>>,
        <<13003, "M", <<49, 50, 26376>>>>, <<13004, "M", <<104, 103>>>>,
        <<13005, "M", <<101, 114, 103>>>>, <<13006, "M", <<101, 118>>>>,
        <<13007, "M", <<108, 116, 100>>>>, <<13008, "M", <<12450>>>>, <<13009, "M", <<12452>>>>,
        <<13010, "M", <<12454>>>>, <<13011, "M", <<12456>>>>, <<13012, "M", <<12458>>>>,
        <<13013, "M", <<12459>>>>, <<13014, "M", <<12461>>>>, <<13015, "M", <<12463>>>>,
        <<13016, "M", <<12465>>>>, <<13017, "M", <<12467>>>>, <<13018, "M", <<12469>>>>,
        <<13019, "M", <<12471>>>>, <<13020, "M", <<12473>>>>, <<13021, "M", <<12475>>>>,
        <<13022, "M", <<12477>>>>, <<13023, "M", <<12479>>>>, <<13024, "M", <<12481>>>>,
        <<13025, "M", <<12484>>>>, <<13026, "M", <<12486>>>>, <<13027, "M", <<12488>>>>,
        <<13028, "M", <<12490>>>>, <<13029, "M", <<12491>>>>, <<13030, "M", <<12492>>>>,
        <<13031, "M", <<12493>>>>, <<13032, "M", <<12494>>>>, <<13033, "M", <<12495>>>>,
        <<13034, "M", <<12498>>>>, <<13035, "M", <<12501>>>>, <<13036, "M", <<12504>>>>,
        <<13037, "M", <<12507>>>>, <<13038, "M", <<12510>>>>, <<13039, "M", <<12511>>>>,
        <<13040, "M", <<12512>>>>, <<13041, "M", <<12513>>>>, <<13042, "M", <<12514>>>>,
        <<13043, "M", <<12516>>>>, <<13044, "M", <<12518>>>>, <<13045, "M", <<12520>>>>,
        <<13046, "M", <<12521>>>>, <<13047, "M", <<12522>>>>, <<13048, "M", <<12523>>>>,
        <<13049, "M", <<12524>>>>, <<13050, "M", <<12525>>>>, <<13051, "M", <<12527>>>>,
        <<13052, "M", <<12528>>>>, <<13053, "M", <<12529>>>>, <<13054, "M", <<12530>>>>,
        <<13055, "M", <<20196, 21644>>>>, <<13056, "M", <<12450, 12497, 12540, 12488>>>>,
        <<13057, "M", <<12450, 12523, 12501, 12449>>>>,
        <<13058, "M", <<12450, 12531, 12506, 12450>>>>, <<13059, "M", <<12450, 12540, 12523>>>>,
        <<13060, "M", <<12452, 12491, 12531, 12464>>>>, <<13061, "M", <<12452, 12531, 12481>>>>,
        <<13062, "M", <<12454, 12457, 12531>>>>,
        <<13063, "M", <<12456, 12473, 12463, 12540, 12489>>>>,
        <<13064, "M", <<12456, 12540, 12459, 12540>>>>, <<13065, "M", <<12458, 12531, 12473>>>>,
        <<13066, "M", <<12458, 12540, 12512>>>>, <<13067, "M", <<12459, 12452, 12522>>>>,
        <<13068, "M", <<12459, 12521, 12483, 12488>>>>,
        <<13069, "M", <<12459, 12525, 12522, 12540>>>>, <<13070, "M", <<12460, 12525, 12531>>>>,
        <<13071, "M", <<12460, 12531, 12510>>>>, <<13072, "M", <<12462, 12460>>>>,
        <<13073, "M", <<12462, 12491, 12540>>>>, <<13074, "M", <<12461, 12517, 12522, 12540>>>>,
        <<13075, "M", <<12462, 12523, 12480, 12540>>>>, <<13076, "M", <<12461, 12525>>>>,
        <<13077, "M", <<12461, 12525, 12464, 12521, 12512>>>>,
        <<13078, "M", <<12461, 12525, 12513, 12540, 12488, 12523>>>>,
        <<13079, "M", <<12461, 12525, 12527, 12483, 12488>>>>,
        <<13080, "M", <<12464, 12521, 12512>>>>,
        <<13081, "M", <<12464, 12521, 12512, 12488, 12531>>>>,
        <<13082, "M", <<12463, 12523, 12476, 12452, 12525>>>>,
        <<13083, "M", <<12463, 12525, 12540, 12493>>>>, <<13084, "M", <<12465, 12540, 12473>>>>,
        <<13085, "M", <<12467, 12523, 12490>>>>, <<13086, "M", <<12467, 12540, 12509>>>>,
        <<13087, "M", <<12469, 12452, 12463, 12523>>>>,
        <<13088, "M", <<12469, 12531, 12481, 12540, 12512>>>>,
        <<13089, "M", <<12471, 12522, 12531, 12464>>>>, <<13090, "M", <<12475, 12531, 12481>>>>,
        <<13091, "M", <<12475, 12531, 12488>>>>, <<13092, "M", <<12480, 12540, 12473>>>>,
        <<13093, "M", <<12487, 12471>>>>, <<13094, "M", <<12489, 12523>>>>,
        <<13095, "M", <<12488, 12531>>>>, <<13096, "M", <<12490, 12494>>>>,
        <<13097, "M", <<12494, 12483, 12488>>>>, <<13098, "M", <<12495, 12452, 12484>>>>,
        <<13099, "M", <<12497, 12540, 12475, 12531, 12488>>>>,
        <<13100, "M", <<12497, 12540, 12484>>>>, <<13101, "M", <<12496, 12540, 12524, 12523>>>>,
        <<13102, "M", <<12500, 12450, 12473, 12488, 12523>>>>,
        <<13103, "M", <<12500, 12463, 12523>>>>, <<13104, "M", <<12500, 12467>>>>,
        <<13105, "M", <<12499, 12523>>>>, <<13106, "M", <<12501, 12449, 12521, 12483, 12489>>>>,
        <<13107, "M", <<12501, 12451, 12540, 12488>>>>,
        <<13108, "M", <<12502, 12483, 12471, 12455, 12523>>>>,
        <<13109, "M", <<12501, 12521, 12531>>>>,
        <<13110, "M", <<12504, 12463, 12479, 12540, 12523>>>>, <<13111, "M", <<12506, 12477>>>>,
        <<13112, "M", <<12506, 12491, 12498>>>>, <<13113, "M", <<12504, 12523, 12484>>>>,
        <<13114, "M", <<12506, 12531, 12473>>>>, <<13115, "M", <<12506, 12540, 12472>>>>,
        <<13116, "M", <<12505, 12540, 12479>>>>, <<13117, "M", <<12509, 12452, 12531, 12488>>>>,
        <<13118, "M", <<12508, 12523, 12488>>>>, <<13119, "M", <<12507, 12531>>>>,
        <<13120, "M", <<12509, 12531, 12489>>>>, <<13121, "M", <<12507, 12540, 12523>>>>,
        <<13122, "M", <<12507, 12540, 12531>>>>, <<13123, "M", <<12510, 12452, 12463, 12525>>>>,
        <<13124, "M", <<12510, 12452, 12523>>>>, <<13125, "M", <<12510, 12483, 12495>>>>,
        <<13126, "M", <<12510, 12523, 12463>>>>,
        <<13127, "M", <<12510, 12531, 12471, 12519, 12531>>>>,
        <<13128, "M", <<12511, 12463, 12525, 12531>>>>, <<13129, "M", <<12511, 12522>>>>,
        <<13130, "M", <<12511, 12522, 12496, 12540, 12523>>>>, <<13131, "M", <<12513, 12460>>>>,
        <<13132, "M", <<12513, 12460, 12488, 12531>>>>,
        <<13133, "M", <<12513, 12540, 12488, 12523>>>>, <<13134, "M", <<12516, 12540, 12489>>>>,
        <<13135, "M", <<12516, 12540, 12523>>>>, <<13136, "M", <<12518, 12450, 12531>>>>,
        <<13137, "M", <<12522, 12483, 12488, 12523>>>>, <<13138, "M", <<12522, 12521>>>>,
        <<13139, "M", <<12523, 12500, 12540>>>>, <<13140, "M", <<12523, 12540, 12502, 12523>>>>,
        <<13141, "M", <<12524, 12512>>>>, <<13142, "M", <<12524, 12531, 12488, 12466, 12531>>>>,
        <<13143, "M", <<12527, 12483, 12488>>>>, <<13144, "M", <<48, 28857>>>>,
        <<13145, "M", <<49, 28857>>>>, <<13146, "M", <<50, 28857>>>>,
        <<13147, "M", <<51, 28857>>>>, <<13148, "M", <<52, 28857>>>>,
        <<13149, "M", <<53, 28857>>>>, <<13150, "M", <<54, 28857>>>>,
        <<13151, "M", <<55, 28857>>>>, <<13152, "M", <<56, 28857>>>>,
        <<13153, "M", <<57, 28857>>>>, <<13154, "M", <<49, 48, 28857>>>>,
        <<13155, "M", <<49, 49, 28857>>>>, <<13156, "M", <<49, 50, 28857>>>>,
        <<13157, "M", <<49, 51, 28857>>>>, <<13158, "M", <<49, 52, 28857>>>>,
        <<13159, "M", <<49, 53, 28857>>>>, <<13160, "M", <<49, 54, 28857>>>>,
        <<13161, "M", <<49, 55, 28857>>>>, <<13162, "M", <<49, 56, 28857>>>>,
        <<13163, "M", <<49, 57, 28857>>>>, <<13164, "M", <<50, 48, 28857>>>>,
        <<13165, "M", <<50, 49, 28857>>>>, <<13166, "M", <<50, 50, 28857>>>>,
        <<13167, "M", <<50, 51, 28857>>>>, <<13168, "M", <<50, 52, 28857>>>>,
        <<13169, "M", <<104, 112, 97>>>>, <<13170, "M", <<100, 97>>>>,
        <<13171, "M", <<97, 117>>>>, <<13172, "M", <<98, 97, 114>>>>,
        <<13173, "M", <<111, 118>>>>, <<13174, "M", <<112, 99>>>>, <<13175, "M", <<100, 109>>>>,
        <<13176, "M", <<100, 109, 50>>>>, <<13177, "M", <<100, 109, 51>>>>,
        <<13178, "M", <<105, 117>>>>, <<13179, "M", <<24179, 25104>>>>,
        <<13180, "M", <<26157, 21644>>>>, <<13181, "M", <<22823, 27491>>>>,
        <<13182, "M", <<26126, 27835>>>>, <<13183, "M", <<26666, 24335, 20250, 31038>>>>,
        <<13184, "M", <<112, 97>>>>, <<13185, "M", <<110, 97>>>>, <<13186, "M", <<956, 97>>>>,
        <<13187, "M", <<109, 97>>>>, <<13188, "M", <<107, 97>>>>, <<13189, "M", <<107, 98>>>>,
        <<13190, "M", <<109, 98>>>>, <<13191, "M", <<103, 98>>>>,
        <<13192, "M", <<99, 97, 108>>>>, <<13193, "M", <<107, 99, 97, 108>>>>,
        <<13194, "M", <<112, 102>>>>, <<13195, "M", <<110, 102>>>>,
        <<13196, "M", <<956, 102>>>>, <<13197, "M", <<956, 103>>>>,
        <<13198, "M", <<109, 103>>>>, <<13199, "M", <<107, 103>>>>,
        <<13200, "M", <<104, 122>>>>, <<13201, "M", <<107, 104, 122>>>>,
        <<13202, "M", <<109, 104, 122>>>>, <<13203, "M", <<103, 104, 122>>>>,
        <<13204, "M", <<116, 104, 122>>>>, <<13205, "M", <<956, 108>>>>,
        <<13206, "M", <<109, 108>>>>, <<13207, "M", <<100, 108>>>>,
        <<13208, "M", <<107, 108>>>>, <<13209, "M", <<102, 109>>>>,
        <<13210, "M", <<110, 109>>>>, <<13211, "M", <<956, 109>>>>,
        <<13212, "M", <<109, 109>>>>, <<13213, "M", <<99, 109>>>>, <<13214, "M", <<107, 109>>>>,
        <<13215, "M", <<109, 109, 50>>>>, <<13216, "M", <<99, 109, 50>>>>,
        <<13217, "M", <<109, 50>>>>, <<13218, "M", <<107, 109, 50>>>>,
        <<13219, "M", <<109, 109, 51>>>>, <<13220, "M", <<99, 109, 51>>>>,
        <<13221, "M", <<109, 51>>>>, <<13222, "M", <<107, 109, 51>>>>,
        <<13223, "M", <<109, 8725, 115>>>>, <<13224, "M", <<109, 8725, 115, 50>>>>,
        <<13225, "M", <<112, 97>>>>, <<13226, "M", <<107, 112, 97>>>>,
        <<13227, "M", <<109, 112, 97>>>>, <<13228, "M", <<103, 112, 97>>>>,
        <<13229, "M", <<114, 97, 100>>>>, <<13230, "M", <<114, 97, 100, 8725, 115>>>>,
        <<13231, "M", <<114, 97, 100, 8725, 115, 50>>>>, <<13232, "M", <<112, 115>>>>,
        <<13233, "M", <<110, 115>>>>, <<13234, "M", <<956, 115>>>>,
        <<13235, "M", <<109, 115>>>>, <<13236, "M", <<112, 118>>>>,
        <<13237, "M", <<110, 118>>>>, <<13238, "M", <<956, 118>>>>,
        <<13239, "M", <<109, 118>>>>, <<13240, "M", <<107, 118>>>>,
        <<13241, "M", <<109, 118>>>>, <<13242, "M", <<112, 119>>>>,
        <<13243, "M", <<110, 119>>>>, <<13244, "M", <<956, 119>>>>,
        <<13245, "M", <<109, 119>>>>, <<13246, "M", <<107, 119>>>>,
        <<13247, "M", <<109, 119>>>>, <<13248, "M", <<107, 969>>>>,
        <<13249, "M", <<109, 969>>>>, <<13250, "X">>, <<13251, "M", <<98, 113>>>>,
        <<13252, "M", <<99, 99>>>>, <<13253, "M", <<99, 100>>>>,
        <<13254, "M", <<99, 8725, 107, 103>>>>, <<13255, "X">>, <<13256, "M", <<100, 98>>>>,
        <<13257, "M", <<103, 121>>>>, <<13258, "M", <<104, 97>>>>, <<13259, "M", <<104, 112>>>>,
        <<13260, "M", <<105, 110>>>>, <<13261, "M", <<107, 107>>>>,
        <<13262, "M", <<107, 109>>>>, <<13263, "M", <<107, 116>>>>,
        <<13264, "M", <<108, 109>>>>, <<13265, "M", <<108, 110>>>>,
        <<13266, "M", <<108, 111, 103>>>>, <<13267, "M", <<108, 120>>>>,
        <<13268, "M", <<109, 98>>>>, <<13269, "M", <<109, 105, 108>>>>,
        <<13270, "M", <<109, 111, 108>>>>, <<13271, "M", <<112, 104>>>>, <<13272, "X">>,
        <<13273, "M", <<112, 112, 109>>>>, <<13274, "M", <<112, 114>>>>,
        <<13275, "M", <<115, 114>>>>, <<13276, "M", <<115, 118>>>>, <<13277, "M", <<119, 98>>>>,
        <<13278, "M", <<118, 8725, 109>>>>, <<13279, "M", <<97, 8725, 109>>>>,
        <<13280, "M", <<49, 26085>>>>, <<13281, "M", <<50, 26085>>>>,
        <<13282, "M", <<51, 26085>>>>, <<13283, "M", <<52, 26085>>>>,
        <<13284, "M", <<53, 26085>>>>, <<13285, "M", <<54, 26085>>>>,
        <<13286, "M", <<55, 26085>>>>, <<13287, "M", <<56, 26085>>>>,
        <<13288, "M", <<57, 26085>>>>, <<13289, "M", <<49, 48, 26085>>>>,
        <<13290, "M", <<49, 49, 26085>>>>, <<13291, "M", <<49, 50, 26085>>>>,
        <<13292, "M", <<49, 51, 26085>>>>, <<13293, "M", <<49, 52, 26085>>>>,
        <<13294, "M", <<49, 53, 26085>>>>, <<13295, "M", <<49, 54, 26085>>>>,
        <<13296, "M", <<49, 55, 26085>>>>, <<13297, "M", <<49, 56, 26085>>>>,
        <<13298, "M", <<49, 57, 26085>>>>, <<13299, "M", <<50, 48, 26085>>>>,
        <<13300, "M", <<50, 49, 26085>>>>, <<13301, "M", <<50, 50, 26085>>>>,
        <<13302, "M", <<50, 51, 26085>>>>, <<13303, "M", <<50, 52, 26085>>>>,
        <<13304, "M", <<50, 53, 26085>>>>, <<13305, "M", <<50, 54, 26085>>>>,
        <<13306, "M", <<50, 55, 26085>>>>, <<13307, "M", <<50, 56, 26085>>>>,
        <<13308, "M", <<50, 57, 26085>>>>, <<13309, "M", <<51, 48, 26085>>>>,
        <<13310, "M", <<51, 49, 26085>>>>, <<13311, "M", <<103, 97, 108>>>>, <<13312, "V">>,
        <<42125, "X">>, <<42128, "V">>, <<42183, "X">>, <<42192, "V">>, <<42540, "X">>,
        <<42560, "M", <<42561>>>>, <<42561, "V">>, <<42562, "M", <<42563>>>>, <<42563, "V">>,
        <<42564, "M", <<42565>>>>, <<42565, "V">>, <<42566, "M", <<42567>>>>, <<42567, "V">>,
        <<42568, "M", <<42569>>>>, <<42569, "V">>, <<42570, "M", <<42571>>>>, <<42571, "V">>,
        <<42572, "M", <<42573>>>>, <<42573, "V">>, <<42574, "M", <<42575>>>>, <<42575, "V">>,
        <<42576, "M", <<42577>>>>, <<42577, "V">>, <<42578, "M", <<42579>>>>, <<42579, "V">>,
        <<42580, "M", <<42581>>>>, <<42581, "V">>, <<42582, "M", <<42583>>>>, <<42583, "V">>,
        <<42584, "M", <<42585>>>>, <<42585, "V">>, <<42586, "M", <<42587>>>>, <<42587, "V">>,
        <<42588, "M", <<42589>>>>, <<42589, "V">>, <<42590, "M", <<42591>>>>, <<42591, "V">>,
        <<42592, "M", <<42593>>>>, <<42593, "V">>, <<42594, "M", <<42595>>>>, <<42595, "V">>,
        <<42596, "M", <<42597>>>>, <<42597, "V">>, <<42598, "M", <<42599>>>>, <<42599, "V">>,
        <<42600, "M", <<42601>>>>, <<42601, "V">>, <<42602, "M", <<42603>>>>, <<42603, "V">>,
        <<42604, "M", <<42605>>>>, <<42605, "V">>, <<42624, "M", <<42625>>>>, <<42625, "V">>,
        <<42626, "M", <<42627>>>>, <<42627, "V">>, <<42628, "M", <<42629>>>>, <<42629, "V">>,
        <<42630, "M", <<42631>>>>, <<42631, "V">>, <<42632, "M", <<42633>>>>, <<42633, "V">>,
        <<42634, "M", <<42635>>>>, <<42635, "V">>, <<42636, "M", <<42637>>>>, <<42637, "V">>,
        <<42638, "M", <<42639>>>>, <<42639, "V">>, <<42640, "M", <<42641>>>>, <<42641, "V">>,
        <<42642, "M", <<42643>>>>, <<42643, "V">>, <<42644, "M", <<42645>>>>, <<42645, "V">>,
        <<42646, "M", <<42647>>>>, <<42647, "V">>, <<42648, "M", <<42649>>>>, <<42649, "V">>,
        <<42650, "M", <<42651>>>>, <<42651, "V">>, <<42652, "M", <<1098>>>>,
        <<42653, "M", <<1100>>>>, <<42654, "V">>, <<42744, "X">>, <<42752, "V">>,
        <<42786, "M", <<42787>>>>, <<42787, "V">>, <<42788, "M", <<42789>>>>, <<42789, "V">>,
        <<42790, "M", <<42791>>>>, <<42791, "V">>, <<42792, "M", <<42793>>>>, <<42793, "V">>,
        <<42794, "M", <<42795>>>>, <<42795, "V">>, <<42796, "M", <<42797>>>>, <<42797, "V">>,
        <<42798, "M", <<42799>>>>, <<42799, "V">>, <<42802, "M", <<42803>>>>, <<42803, "V">>,
        <<42804, "M", <<42805>>>>, <<42805, "V">>, <<42806, "M", <<42807>>>>, <<42807, "V">>,
        <<42808, "M", <<42809>>>>, <<42809, "V">>, <<42810, "M", <<42811>>>>, <<42811, "V">>,
        <<42812, "M", <<42813>>>>, <<42813, "V">>, <<42814, "M", <<42815>>>>, <<42815, "V">>,
        <<42816, "M", <<42817>>>>, <<42817, "V">>, <<42818, "M", <<42819>>>>, <<42819, "V">>,
        <<42820, "M", <<42821>>>>, <<42821, "V">>, <<42822, "M", <<42823>>>>, <<42823, "V">>,
        <<42824, "M", <<42825>>>>, <<42825, "V">>, <<42826, "M", <<42827>>>>, <<42827, "V">>,
        <<42828, "M", <<42829>>>>, <<42829, "V">>, <<42830, "M", <<42831>>>>, <<42831, "V">>,
        <<42832, "M", <<42833>>>>, <<42833, "V">>, <<42834, "M", <<42835>>>>, <<42835, "V">>,
        <<42836, "M", <<42837>>>>, <<42837, "V">>, <<42838, "M", <<42839>>>>, <<42839, "V">>,
        <<42840, "M", <<42841>>>>, <<42841, "V">>, <<42842, "M", <<42843>>>>, <<42843, "V">>,
        <<42844, "M", <<42845>>>>, <<42845, "V">>, <<42846, "M", <<42847>>>>, <<42847, "V">>,
        <<42848, "M", <<42849>>>>, <<42849, "V">>, <<42850, "M", <<42851>>>>, <<42851, "V">>,
        <<42852, "M", <<42853>>>>, <<42853, "V">>, <<42854, "M", <<42855>>>>, <<42855, "V">>,
        <<42856, "M", <<42857>>>>, <<42857, "V">>, <<42858, "M", <<42859>>>>, <<42859, "V">>,
        <<42860, "M", <<42861>>>>, <<42861, "V">>, <<42862, "M", <<42863>>>>, <<42863, "V">>,
        <<42864, "M", <<42863>>>>, <<42865, "V">>, <<42873, "M", <<42874>>>>, <<42874, "V">>,
        <<42875, "M", <<42876>>>>, <<42876, "V">>, <<42877, "M", <<7545>>>>,
        <<42878, "M", <<42879>>>>, <<42879, "V">>, <<42880, "M", <<42881>>>>, <<42881, "V">>,
        <<42882, "M", <<42883>>>>, <<42883, "V">>, <<42884, "M", <<42885>>>>, <<42885, "V">>,
        <<42886, "M", <<42887>>>>, <<42887, "V">>, <<42891, "M", <<42892>>>>, <<42892, "V">>,
        <<42893, "M", <<613>>>>, <<42894, "V">>, <<42896, "M", <<42897>>>>, <<42897, "V">>,
        <<42898, "M", <<42899>>>>, <<42899, "V">>, <<42902, "M", <<42903>>>>, <<42903, "V">>,
        <<42904, "M", <<42905>>>>, <<42905, "V">>, <<42906, "M", <<42907>>>>, <<42907, "V">>,
        <<42908, "M", <<42909>>>>, <<42909, "V">>, <<42910, "M", <<42911>>>>, <<42911, "V">>,
        <<42912, "M", <<42913>>>>, <<42913, "V">>, <<42914, "M", <<42915>>>>, <<42915, "V">>,
        <<42916, "M", <<42917>>>>, <<42917, "V">>, <<42918, "M", <<42919>>>>, <<42919, "V">>,
        <<42920, "M", <<42921>>>>, <<42921, "V">>, <<42922, "M", <<614>>>>,
        <<42923, "M", <<604>>>>, <<42924, "M", <<609>>>>, <<42925, "M", <<620>>>>,
        <<42926, "M", <<618>>>>, <<42927, "V">>, <<42928, "M", <<670>>>>,
        <<42929, "M", <<647>>>>, <<42930, "M", <<669>>>>, <<42931, "M", <<43859>>>>,
        <<42932, "M", <<42933>>>>, <<42933, "V">>, <<42934, "M", <<42935>>>>, <<42935, "V">>,
        <<42936, "M", <<42937>>>>, <<42937, "V">>, <<42938, "M", <<42939>>>>, <<42939, "V">>,
        <<42940, "M", <<42941>>>>, <<42941, "V">>, <<42942, "M", <<42943>>>>, <<42943, "V">>,
        <<42944, "M", <<42945>>>>, <<42945, "V">>, <<42946, "M", <<42947>>>>, <<42947, "V">>,
        <<42948, "M", <<42900>>>>, <<42949, "M", <<642>>>>, <<42950, "M", <<7566>>>>,
        <<42951, "M", <<42952>>>>, <<42952, "V">>, <<42953, "M", <<42954>>>>, <<42954, "V">>,
        <<42955, "X">>, <<42960, "M", <<42961>>>>, <<42961, "V">>, <<42962, "X">>,
        <<42963, "V">>, <<42964, "X">>, <<42965, "V">>, <<42966, "M", <<42967>>>>,
        <<42967, "V">>, <<42968, "M", <<42969>>>>, <<42969, "V">>, <<42970, "X">>,
        <<42994, "M", <<99>>>>, <<42995, "M", <<102>>>>, <<42996, "M", <<113>>>>,
        <<42997, "M", <<42998>>>>, <<42998, "V">>, <<43000, "M", <<295>>>>,
        <<43001, "M", <<339>>>>, <<43002, "V">>, <<43053, "X">>, <<43056, "V">>, <<43066, "X">>,
        <<43072, "V">>, <<43128, "X">>, <<43136, "V">>, <<43206, "X">>, <<43214, "V">>,
        <<43226, "X">>, <<43232, "V">>, <<43348, "X">>, <<43359, "V">>, <<43389, "X">>,
        <<43392, "V">>, <<43470, "X">>, <<43471, "V">>, <<43482, "X">>, <<43486, "V">>,
        <<43519, "X">>, <<43520, "V">>, <<43575, "X">>, <<43584, "V">>, <<43598, "X">>,
        <<43600, "V">>, <<43610, "X">>, <<43612, "V">>, <<43715, "X">>, <<43739, "V">>,
        <<43767, "X">>, <<43777, "V">>, <<43783, "X">>, <<43785, "V">>, <<43791, "X">>,
        <<43793, "V">>, <<43799, "X">>, <<43808, "V">>, <<43815, "X">>, <<43816, "V">>,
        <<43823, "X">>, <<43824, "V">>, <<43868, "M", <<42791>>>>, <<43869, "M", <<43831>>>>,
        <<43870, "M", <<619>>>>, <<43871, "M", <<43858>>>>, <<43872, "V">>,
        <<43881, "M", <<653>>>>, <<43882, "V">>, <<43884, "X">>, <<43888, "M", <<5024>>>>,
        <<43889, "M", <<5025>>>>, <<43890, "M", <<5026>>>>, <<43891, "M", <<5027>>>>,
        <<43892, "M", <<5028>>>>, <<43893, "M", <<5029>>>>, <<43894, "M", <<5030>>>>,
        <<43895, "M", <<5031>>>>, <<43896, "M", <<5032>>>>, <<43897, "M", <<5033>>>>,
        <<43898, "M", <<5034>>>>, <<43899, "M", <<5035>>>>, <<43900, "M", <<5036>>>>,
        <<43901, "M", <<5037>>>>, <<43902, "M", <<5038>>>>, <<43903, "M", <<5039>>>>,
        <<43904, "M", <<5040>>>>, <<43905, "M", <<5041>>>>, <<43906, "M", <<5042>>>>,
        <<43907, "M", <<5043>>>>, <<43908, "M", <<5044>>>>, <<43909, "M", <<5045>>>>,
        <<43910, "M", <<5046>>>>, <<43911, "M", <<5047>>>>, <<43912, "M", <<5048>>>>,
        <<43913, "M", <<5049>>>>, <<43914, "M", <<5050>>>>, <<43915, "M", <<5051>>>>,
        <<43916, "M", <<5052>>>>, <<43917, "M", <<5053>>>>, <<43918, "M", <<5054>>>>,
        <<43919, "M", <<5055>>>>, <<43920, "M", <<5056>>>>, <<43921, "M", <<5057>>>>,
        <<43922, "M", <<5058>>>>, <<43923, "M", <<5059>>>>, <<43924, "M", <<5060>>>>,
        <<43925, "M", <<5061>>>>, <<43926, "M", <<5062>>>>, <<43927, "M", <<5063>>>>,
        <<43928, "M", <<5064>>>>, <<43929, "M", <<5065>>>>, <<43930, "M", <<5066>>>>,
        <<43931, "M", <<5067>>>>, <<43932, "M", <<5068>>>>, <<43933, "M", <<5069>>>>,
        <<43934, "M", <<5070>>>>, <<43935, "M", <<5071>>>>, <<43936, "M", <<5072>>>>,
        <<43937, "M", <<5073>>>>, <<43938, "M", <<5074>>>>, <<43939, "M", <<5075>>>>,
        <<43940, "M", <<5076>>>>, <<43941, "M", <<5077>>>>, <<43942, "M", <<5078>>>>,
        <<43943, "M", <<5079>>>>, <<43944, "M", <<5080>>>>, <<43945, "M", <<5081>>>>,
        <<43946, "M", <<5082>>>>, <<43947, "M", <<5083>>>>, <<43948, "M", <<5084>>>>,
        <<43949, "M", <<5085>>>>, <<43950, "M", <<5086>>>>, <<43951, "M", <<5087>>>>,
        <<43952, "M", <<5088>>>>, <<43953, "M", <<5089>>>>, <<43954, "M", <<5090>>>>,
        <<43955, "M", <<5091>>>>, <<43956, "M", <<5092>>>>, <<43957, "M", <<5093>>>>,
        <<43958, "M", <<5094>>>>, <<43959, "M", <<5095>>>>, <<43960, "M", <<5096>>>>,
        <<43961, "M", <<5097>>>>, <<43962, "M", <<5098>>>>, <<43963, "M", <<5099>>>>,
        <<43964, "M", <<5100>>>>, <<43965, "M", <<5101>>>>, <<43966, "M", <<5102>>>>,
        <<43967, "M", <<5103>>>>, <<43968, "V">>, <<44014, "X">>, <<44016, "V">>,
        <<44026, "X">>, <<44032, "V">>, <<55204, "X">>, <<55216, "V">>, <<55239, "X">>,
        <<55243, "V">>, <<55292, "X">>, <<63744, "M", <<35912>>>>, <<63745, "M", <<26356>>>>,
        <<63746, "M", <<36554>>>>, <<63747, "M", <<36040>>>>, <<63748, "M", <<28369>>>>,
        <<63749, "M", <<20018>>>>, <<63750, "M", <<21477>>>>, <<63751, "M", <<40860>>>>,
        <<63753, "M", <<22865>>>>, <<63754, "M", <<37329>>>>, <<63755, "M", <<21895>>>>,
        <<63756, "M", <<22856>>>>, <<63757, "M", <<25078>>>>, <<63758, "M", <<30313>>>>,
        <<63759, "M", <<32645>>>>, <<63760, "M", <<34367>>>>, <<63761, "M", <<34746>>>>,
        <<63762, "M", <<35064>>>>, <<63763, "M", <<37007>>>>, <<63764, "M", <<27138>>>>,
        <<63765, "M", <<27931>>>>, <<63766, "M", <<28889>>>>, <<63767, "M", <<29662>>>>,
        <<63768, "M", <<33853>>>>, <<63769, "M", <<37226>>>>, <<63770, "M", <<39409>>>>,
        <<63771, "M", <<20098>>>>, <<63772, "M", <<21365>>>>, <<63773, "M", <<27396>>>>,
        <<63774, "M", <<29211>>>>, <<63775, "M", <<34349>>>>, <<63776, "M", <<40478>>>>,
        <<63777, "M", <<23888>>>>, <<63778, "M", <<28651>>>>, <<63779, "M", <<34253>>>>,
        <<63780, "M", <<35172>>>>, <<63781, "M", <<25289>>>>, <<63782, "M", <<33240>>>>,
        <<63783, "M", <<34847>>>>, <<63784, "M", <<24266>>>>, <<63785, "M", <<26391>>>>,
        <<63786, "M", <<28010>>>>, <<63787, "M", <<29436>>>>, <<63788, "M", <<37070>>>>,
        <<63789, "M", <<20358>>>>, <<63790, "M", <<20919>>>>, <<63791, "M", <<21214>>>>,
        <<63792, "M", <<25796>>>>, <<63793, "M", <<27347>>>>, <<63794, "M", <<29200>>>>,
        <<63795, "M", <<30439>>>>, <<63796, "M", <<32769>>>>, <<63797, "M", <<34310>>>>,
        <<63798, "M", <<34396>>>>, <<63799, "M", <<36335>>>>, <<63800, "M", <<38706>>>>,
        <<63801, "M", <<39791>>>>, <<63802, "M", <<40442>>>>, <<63803, "M", <<30860>>>>,
        <<63804, "M", <<31103>>>>, <<63805, "M", <<32160>>>>, <<63806, "M", <<33737>>>>,
        <<63807, "M", <<37636>>>>, <<63808, "M", <<40575>>>>, <<63809, "M", <<35542>>>>,
        <<63810, "M", <<22751>>>>, <<63811, "M", <<24324>>>>, <<63812, "M", <<31840>>>>,
        <<63813, "M", <<32894>>>>, <<63814, "M", <<29282>>>>, <<63815, "M", <<30922>>>>,
        <<63816, "M", <<36034>>>>, <<63817, "M", <<38647>>>>, <<63818, "M", <<22744>>>>,
        <<63819, "M", <<23650>>>>, <<63820, "M", <<27155>>>>, <<63821, "M", <<28122>>>>,
        <<63822, "M", <<28431>>>>, <<63823, "M", <<32047>>>>, <<63824, "M", <<32311>>>>,
        <<63825, "M", <<38475>>>>, <<63826, "M", <<21202>>>>, <<63827, "M", <<32907>>>>,
        <<63828, "M", <<20956>>>>, <<63829, "M", <<20940>>>>, <<63830, "M", <<31260>>>>,
        <<63831, "M", <<32190>>>>, <<63832, "M", <<33777>>>>, <<63833, "M", <<38517>>>>,
        <<63834, "M", <<35712>>>>, <<63835, "M", <<25295>>>>, <<63836, "M", <<27138>>>>,
        <<63837, "M", <<35582>>>>, <<63838, "M", <<20025>>>>, <<63839, "M", <<23527>>>>,
        <<63840, "M", <<24594>>>>, <<63841, "M", <<29575>>>>, <<63842, "M", <<30064>>>>,
        <<63843, "M", <<21271>>>>, <<63844, "M", <<30971>>>>, <<63845, "M", <<20415>>>>,
        <<63846, "M", <<24489>>>>, <<63847, "M", <<19981>>>>, <<63848, "M", <<27852>>>>,
        <<63849, "M", <<25976>>>>, <<63850, "M", <<32034>>>>, <<63851, "M", <<21443>>>>,
        <<63852, "M", <<22622>>>>, <<63853, "M", <<30465>>>>, <<63854, "M", <<33865>>>>,
        <<63855, "M", <<35498>>>>, <<63856, "M", <<27578>>>>, <<63857, "M", <<36784>>>>,
        <<63858, "M", <<27784>>>>, <<63859, "M", <<25342>>>>, <<63860, "M", <<33509>>>>,
        <<63861, "M", <<25504>>>>, <<63862, "M", <<30053>>>>, <<63863, "M", <<20142>>>>,
        <<63864, "M", <<20841>>>>, <<63865, "M", <<20937>>>>, <<63866, "M", <<26753>>>>,
        <<63867, "M", <<31975>>>>, <<63868, "M", <<33391>>>>, <<63869, "M", <<35538>>>>,
        <<63870, "M", <<37327>>>>, <<63871, "M", <<21237>>>>, <<63872, "M", <<21570>>>>,
        <<63873, "M", <<22899>>>>, <<63874, "M", <<24300>>>>, <<63875, "M", <<26053>>>>,
        <<63876, "M", <<28670>>>>, <<63877, "M", <<31018>>>>, <<63878, "M", <<38317>>>>,
        <<63879, "M", <<39530>>>>, <<63880, "M", <<40599>>>>, <<63881, "M", <<40654>>>>,
        <<63882, "M", <<21147>>>>, <<63883, "M", <<26310>>>>, <<63884, "M", <<27511>>>>,
        <<63885, "M", <<36706>>>>, <<63886, "M", <<24180>>>>, <<63887, "M", <<24976>>>>,
        <<63888, "M", <<25088>>>>, <<63889, "M", <<25754>>>>, <<63890, "M", <<28451>>>>,
        <<63891, "M", <<29001>>>>, <<63892, "M", <<29833>>>>, <<63893, "M", <<31178>>>>,
        <<63894, "M", <<32244>>>>, <<63895, "M", <<32879>>>>, <<63896, "M", <<36646>>>>,
        <<63897, "M", <<34030>>>>, <<63898, "M", <<36899>>>>, <<63899, "M", <<37706>>>>,
        <<63900, "M", <<21015>>>>, <<63901, "M", <<21155>>>>, <<63902, "M", <<21693>>>>,
        <<63903, "M", <<28872>>>>, <<63904, "M", <<35010>>>>, <<63905, "M", <<35498>>>>,
        <<63906, "M", <<24265>>>>, <<63907, "M", <<24565>>>>, <<63908, "M", <<25467>>>>,
        <<63909, "M", <<27566>>>>, <<63910, "M", <<31806>>>>, <<63911, "M", <<29557>>>>,
        <<63912, "M", <<20196>>>>, <<63913, "M", <<22265>>>>, <<63914, "M", <<23527>>>>,
        <<63915, "M", <<23994>>>>, <<63916, "M", <<24604>>>>, <<63917, "M", <<29618>>>>,
        <<63918, "M", <<29801>>>>, <<63919, "M", <<32666>>>>, <<63920, "M", <<32838>>>>,
        <<63921, "M", <<37428>>>>, <<63922, "M", <<38646>>>>, <<63923, "M", <<38728>>>>,
        <<63924, "M", <<38936>>>>, <<63925, "M", <<20363>>>>, <<63926, "M", <<31150>>>>,
        <<63927, "M", <<37300>>>>, <<63928, "M", <<38584>>>>, <<63929, "M", <<24801>>>>,
        <<63930, "M", <<20102>>>>, <<63931, "M", <<20698>>>>, <<63932, "M", <<23534>>>>,
        <<63933, "M", <<23615>>>>, <<63934, "M", <<26009>>>>, <<63935, "M", <<27138>>>>,
        <<63936, "M", <<29134>>>>, <<63937, "M", <<30274>>>>, <<63938, "M", <<34044>>>>,
        <<63939, "M", <<36988>>>>, <<63940, "M", <<40845>>>>, <<63941, "M", <<26248>>>>,
        <<63942, "M", <<38446>>>>, <<63943, "M", <<21129>>>>, <<63944, "M", <<26491>>>>,
        <<63945, "M", <<26611>>>>, <<63946, "M", <<27969>>>>, <<63947, "M", <<28316>>>>,
        <<63948, "M", <<29705>>>>, <<63949, "M", <<30041>>>>, <<63950, "M", <<30827>>>>,
        <<63951, "M", <<32016>>>>, <<63952, "M", <<39006>>>>, <<63953, "M", <<20845>>>>,
        <<63954, "M", <<25134>>>>, <<63955, "M", <<38520>>>>, <<63956, "M", <<20523>>>>,
        <<63957, "M", <<23833>>>>, <<63958, "M", <<28138>>>>, <<63959, "M", <<36650>>>>,
        <<63960, "M", <<24459>>>>, <<63961, "M", <<24900>>>>, <<63962, "M", <<26647>>>>,
        <<63963, "M", <<29575>>>>, <<63964, "M", <<38534>>>>, <<63965, "M", <<21033>>>>,
        <<63966, "M", <<21519>>>>, <<63967, "M", <<23653>>>>, <<63968, "M", <<26131>>>>,
        <<63969, "M", <<26446>>>>, <<63970, "M", <<26792>>>>, <<63971, "M", <<27877>>>>,
        <<63972, "M", <<29702>>>>, <<63973, "M", <<30178>>>>, <<63974, "M", <<32633>>>>,
        <<63975, "M", <<35023>>>>, <<63976, "M", <<35041>>>>, <<63977, "M", <<37324>>>>,
        <<63978, "M", <<38626>>>>, <<63979, "M", <<21311>>>>, <<63980, "M", <<28346>>>>,
        <<63981, "M", <<21533>>>>, <<63982, "M", <<29136>>>>, <<63983, "M", <<29848>>>>,
        <<63984, "M", <<34298>>>>, <<63985, "M", <<38563>>>>, <<63986, "M", <<40023>>>>,
        <<63987, "M", <<40607>>>>, <<63988, "M", <<26519>>>>, <<63989, "M", <<28107>>>>,
        <<63990, "M", <<33256>>>>, <<63991, "M", <<31435>>>>, <<63992, "M", <<31520>>>>,
        <<63993, "M", <<31890>>>>, <<63994, "M", <<29376>>>>, <<63995, "M", <<28825>>>>,
        <<63996, "M", <<35672>>>>, <<63997, "M", <<20160>>>>, <<63998, "M", <<33590>>>>,
        <<63999, "M", <<21050>>>>, <<64000, "M", <<20999>>>>, <<64001, "M", <<24230>>>>,
        <<64002, "M", <<25299>>>>, <<64003, "M", <<31958>>>>, <<64004, "M", <<23429>>>>,
        <<64005, "M", <<27934>>>>, <<64006, "M", <<26292>>>>, <<64007, "M", <<36667>>>>,
        <<64008, "M", <<34892>>>>, <<64009, "M", <<38477>>>>, <<64010, "M", <<35211>>>>,
        <<64011, "M", <<24275>>>>, <<64012, "M", <<20800>>>>, <<64013, "M", <<21952>>>>,
        <<64014, "V">>, <<64016, "M", <<22618>>>>, <<64017, "V">>, <<64018, "M", <<26228>>>>,
        <<64019, "V">>, <<64021, "M", <<20958>>>>, <<64022, "M", <<29482>>>>,
        <<64023, "M", <<30410>>>>, <<64024, "M", <<31036>>>>, <<64025, "M", <<31070>>>>,
        <<64026, "M", <<31077>>>>, <<64027, "M", <<31119>>>>, <<64028, "M", <<38742>>>>,
        <<64029, "M", <<31934>>>>, <<64030, "M", <<32701>>>>, <<64031, "V">>,
        <<64032, "M", <<34322>>>>, <<64033, "V">>, <<64034, "M", <<35576>>>>, <<64035, "V">>,
        <<64037, "M", <<36920>>>>, <<64038, "M", <<37117>>>>, <<64039, "V">>,
        <<64042, "M", <<39151>>>>, <<64043, "M", <<39164>>>>, <<64044, "M", <<39208>>>>,
        <<64045, "M", <<40372>>>>, <<64046, "M", <<37086>>>>, <<64047, "M", <<38583>>>>,
        <<64048, "M", <<20398>>>>, <<64049, "M", <<20711>>>>, <<64050, "M", <<20813>>>>,
        <<64051, "M", <<21193>>>>, <<64052, "M", <<21220>>>>, <<64053, "M", <<21329>>>>,
        <<64054, "M", <<21917>>>>, <<64055, "M", <<22022>>>>, <<64056, "M", <<22120>>>>,
        <<64057, "M", <<22592>>>>, <<64058, "M", <<22696>>>>, <<64059, "M", <<23652>>>>,
        <<64060, "M", <<23662>>>>, <<64061, "M", <<24724>>>>, <<64062, "M", <<24936>>>>,
        <<64063, "M", <<24974>>>>, <<64064, "M", <<25074>>>>, <<64065, "M", <<25935>>>>,
        <<64066, "M", <<26082>>>>, <<64067, "M", <<26257>>>>, <<64068, "M", <<26757>>>>,
        <<64069, "M", <<28023>>>>, <<64070, "M", <<28186>>>>, <<64071, "M", <<28450>>>>,
        <<64072, "M", <<29038>>>>, <<64073, "M", <<29227>>>>, <<64074, "M", <<29730>>>>,
        <<64075, "M", <<30865>>>>, <<64076, "M", <<31038>>>>, <<64077, "M", <<31049>>>>,
        <<64078, "M", <<31048>>>>, <<64079, "M", <<31056>>>>, <<64080, "M", <<31062>>>>,
        <<64081, "M", <<31069>>>>, <<64082, "M", <<31117>>>>, <<64083, "M", <<31118>>>>,
        <<64084, "M", <<31296>>>>, <<64085, "M", <<31361>>>>, <<64086, "M", <<31680>>>>,
        <<64087, "M", <<32244>>>>, <<64088, "M", <<32265>>>>, <<64089, "M", <<32321>>>>,
        <<64090, "M", <<32626>>>>, <<64091, "M", <<32773>>>>, <<64092, "M", <<33261>>>>,
        <<64093, "M", <<33401>>>>, <<64095, "M", <<33879>>>>, <<64096, "M", <<35088>>>>,
        <<64097, "M", <<35222>>>>, <<64098, "M", <<35585>>>>, <<64099, "M", <<35641>>>>,
        <<64100, "M", <<36051>>>>, <<64101, "M", <<36104>>>>, <<64102, "M", <<36790>>>>,
        <<64103, "M", <<36920>>>>, <<64104, "M", <<38627>>>>, <<64105, "M", <<38911>>>>,
        <<64106, "M", <<38971>>>>, <<64107, "M", <<24693>>>>, <<64108, "M", <<148206>>>>,
        <<64109, "M", <<33304>>>>, <<64110, "X">>, <<64112, "M", <<20006>>>>,
        <<64113, "M", <<20917>>>>, <<64114, "M", <<20840>>>>, <<64115, "M", <<20352>>>>,
        <<64116, "M", <<20805>>>>, <<64117, "M", <<20864>>>>, <<64118, "M", <<21191>>>>,
        <<64119, "M", <<21242>>>>, <<64120, "M", <<21917>>>>, <<64121, "M", <<21845>>>>,
        <<64122, "M", <<21913>>>>, <<64123, "M", <<21986>>>>, <<64124, "M", <<22618>>>>,
        <<64125, "M", <<22707>>>>, <<64126, "M", <<22852>>>>, <<64127, "M", <<22868>>>>,
        <<64128, "M", <<23138>>>>, <<64129, "M", <<23336>>>>, <<64130, "M", <<24274>>>>,
        <<64131, "M", <<24281>>>>, <<64132, "M", <<24425>>>>, <<64133, "M", <<24493>>>>,
        <<64134, "M", <<24792>>>>, <<64135, "M", <<24910>>>>, <<64136, "M", <<24840>>>>,
        <<64137, "M", <<24974>>>>, <<64138, "M", <<24928>>>>, <<64139, "M", <<25074>>>>,
        <<64140, "M", <<25140>>>>, <<64141, "M", <<25540>>>>, <<64142, "M", <<25628>>>>,
        <<64143, "M", <<25682>>>>, <<64144, "M", <<25942>>>>, <<64145, "M", <<26228>>>>,
        <<64146, "M", <<26391>>>>, <<64147, "M", <<26395>>>>, <<64148, "M", <<26454>>>>,
        <<64149, "M", <<27513>>>>, <<64150, "M", <<27578>>>>, <<64151, "M", <<27969>>>>,
        <<64152, "M", <<28379>>>>, <<64153, "M", <<28363>>>>, <<64154, "M", <<28450>>>>,
        <<64155, "M", <<28702>>>>, <<64156, "M", <<29038>>>>, <<64157, "M", <<30631>>>>,
        <<64158, "M", <<29237>>>>, <<64159, "M", <<29359>>>>, <<64160, "M", <<29482>>>>,
        <<64161, "M", <<29809>>>>, <<64162, "M", <<29958>>>>, <<64163, "M", <<30011>>>>,
        <<64164, "M", <<30237>>>>, <<64165, "M", <<30239>>>>, <<64166, "M", <<30410>>>>,
        <<64167, "M", <<30427>>>>, <<64168, "M", <<30452>>>>, <<64169, "M", <<30538>>>>,
        <<64170, "M", <<30528>>>>, <<64171, "M", <<30924>>>>, <<64172, "M", <<31409>>>>,
        <<64173, "M", <<31680>>>>, <<64174, "M", <<31867>>>>, <<64175, "M", <<32091>>>>,
        <<64176, "M", <<32244>>>>, <<64177, "M", <<32574>>>>, <<64178, "M", <<32773>>>>,
        <<64179, "M", <<33618>>>>, <<64180, "M", <<33775>>>>, <<64181, "M", <<34681>>>>,
        <<64182, "M", <<35137>>>>, <<64183, "M", <<35206>>>>, <<64184, "M", <<35222>>>>,
        <<64185, "M", <<35519>>>>, <<64186, "M", <<35576>>>>, <<64187, "M", <<35531>>>>,
        <<64188, "M", <<35585>>>>, <<64189, "M", <<35582>>>>, <<64190, "M", <<35565>>>>,
        <<64191, "M", <<35641>>>>, <<64192, "M", <<35722>>>>, <<64193, "M", <<36104>>>>,
        <<64194, "M", <<36664>>>>, <<64195, "M", <<36978>>>>, <<64196, "M", <<37273>>>>,
        <<64197, "M", <<37494>>>>, <<64198, "M", <<38524>>>>, <<64199, "M", <<38627>>>>,
        <<64200, "M", <<38742>>>>, <<64201, "M", <<38875>>>>, <<64202, "M", <<38911>>>>,
        <<64203, "M", <<38923>>>>, <<64204, "M", <<38971>>>>, <<64205, "M", <<39698>>>>,
        <<64206, "M", <<40860>>>>, <<64207, "M", <<141386>>>>, <<64208, "M", <<141380>>>>,
        <<64209, "M", <<144341>>>>, <<64210, "M", <<15261>>>>, <<64211, "M", <<16408>>>>,
        <<64212, "M", <<16441>>>>, <<64213, "M", <<152137>>>>, <<64214, "M", <<154832>>>>,
        <<64215, "M", <<163539>>>>, <<64216, "M", <<40771>>>>, <<64217, "M", <<40846>>>>,
        <<64218, "X">>, <<64256, "M", <<102, 102>>>>, <<64257, "M", <<102, 105>>>>,
        <<64258, "M", <<102, 108>>>>, <<64259, "M", <<102, 102, 105>>>>,
        <<64260, "M", <<102, 102, 108>>>>, <<64261, "M", <<115, 116>>>>, <<64263, "X">>,
        <<64275, "M", <<1396, 1398>>>>, <<64276, "M", <<1396, 1381>>>>,
        <<64277, "M", <<1396, 1387>>>>, <<64278, "M", <<1406, 1398>>>>,
        <<64279, "M", <<1396, 1389>>>>, <<64280, "X">>, <<64285, "M", <<1497, 1460>>>>,
        <<64286, "V">>, <<64287, "M", <<1522, 1463>>>>, <<64288, "M", <<1506>>>>,
        <<64289, "M", <<1488>>>>, <<64290, "M", <<1491>>>>, <<64291, "M", <<1492>>>>,
        <<64292, "M", <<1499>>>>, <<64293, "M", <<1500>>>>, <<64294, "M", <<1501>>>>,
        <<64295, "M", <<1512>>>>, <<64296, "M", <<1514>>>>, <<64297, "M", <<43>>>>,
        <<64298, "M", <<1513, 1473>>>>, <<64299, "M", <<1513, 1474>>>>,
        <<64300, "M", <<1513, 1468, 1473>>>>, <<64301, "M", <<1513, 1468, 1474>>>>,
        <<64302, "M", <<1488, 1463>>>>, <<64303, "M", <<1488, 1464>>>>,
        <<64304, "M", <<1488, 1468>>>>, <<64305, "M", <<1489, 1468>>>>,
        <<64306, "M", <<1490, 1468>>>>, <<64307, "M", <<1491, 1468>>>>,
        <<64308, "M", <<1492, 1468>>>>, <<64309, "M", <<1493, 1468>>>>,
        <<64310, "M", <<1494, 1468>>>>, <<64311, "X">>, <<64312, "M", <<1496, 1468>>>>,
        <<64313, "M", <<1497, 1468>>>>, <<64314, "M", <<1498, 1468>>>>,
        <<64315, "M", <<1499, 1468>>>>, <<64316, "M", <<1500, 1468>>>>, <<64317, "X">>,
        <<64318, "M", <<1502, 1468>>>>, <<64319, "X">>, <<64320, "M", <<1504, 1468>>>>,
        <<64321, "M", <<1505, 1468>>>>, <<64322, "X">>, <<64323, "M", <<1507, 1468>>>>,
        <<64324, "M", <<1508, 1468>>>>, <<64325, "X">>, <<64326, "M", <<1510, 1468>>>>,
        <<64327, "M", <<1511, 1468>>>>, <<64328, "M", <<1512, 1468>>>>,
        <<64329, "M", <<1513, 1468>>>>, <<64330, "M", <<1514, 1468>>>>,
        <<64331, "M", <<1493, 1465>>>>, <<64332, "M", <<1489, 1471>>>>,
        <<64333, "M", <<1499, 1471>>>>, <<64334, "M", <<1508, 1471>>>>,
        <<64335, "M", <<1488, 1500>>>>, <<64336, "M", <<1649>>>>, <<64338, "M", <<1659>>>>,
        <<64342, "M", <<1662>>>>, <<64346, "M", <<1664>>>>, <<64350, "M", <<1658>>>>,
        <<64354, "M", <<1663>>>>, <<64358, "M", <<1657>>>>, <<64362, "M", <<1700>>>>,
        <<64366, "M", <<1702>>>>, <<64370, "M", <<1668>>>>, <<64374, "M", <<1667>>>>,
        <<64378, "M", <<1670>>>>, <<64382, "M", <<1671>>>>, <<64386, "M", <<1677>>>>,
        <<64388, "M", <<1676>>>>, <<64390, "M", <<1678>>>>, <<64392, "M", <<1672>>>>,
        <<64394, "M", <<1688>>>>, <<64396, "M", <<1681>>>>, <<64398, "M", <<1705>>>>,
        <<64402, "M", <<1711>>>>, <<64406, "M", <<1715>>>>, <<64410, "M", <<1713>>>>,
        <<64414, "M", <<1722>>>>, <<64416, "M", <<1723>>>>, <<64420, "M", <<1728>>>>,
        <<64422, "M", <<1729>>>>, <<64426, "M", <<1726>>>>, <<64430, "M", <<1746>>>>,
        <<64432, "M", <<1747>>>>, <<64434, "V">>, <<64451, "X">>, <<64467, "M", <<1709>>>>,
        <<64471, "M", <<1735>>>>, <<64473, "M", <<1734>>>>, <<64475, "M", <<1736>>>>,
        <<64477, "M", <<1735, 1652>>>>, <<64478, "M", <<1739>>>>, <<64480, "M", <<1733>>>>,
        <<64482, "M", <<1737>>>>, <<64484, "M", <<1744>>>>, <<64488, "M", <<1609>>>>,
        <<64490, "M", <<1574, 1575>>>>, <<64492, "M", <<1574, 1749>>>>,
        <<64494, "M", <<1574, 1608>>>>, <<64496, "M", <<1574, 1735>>>>,
        <<64498, "M", <<1574, 1734>>>>, <<64500, "M", <<1574, 1736>>>>,
        <<64502, "M", <<1574, 1744>>>>, <<64505, "M", <<1574, 1609>>>>,
        <<64508, "M", <<1740>>>>, <<64512, "M", <<1574, 1580>>>>,
        <<64513, "M", <<1574, 1581>>>>, <<64514, "M", <<1574, 1605>>>>,
        <<64515, "M", <<1574, 1609>>>>, <<64516, "M", <<1574, 1610>>>>,
        <<64517, "M", <<1576, 1580>>>>, <<64518, "M", <<1576, 1581>>>>,
        <<64519, "M", <<1576, 1582>>>>, <<64520, "M", <<1576, 1605>>>>,
        <<64521, "M", <<1576, 1609>>>>, <<64522, "M", <<1576, 1610>>>>,
        <<64523, "M", <<1578, 1580>>>>, <<64524, "M", <<1578, 1581>>>>,
        <<64525, "M", <<1578, 1582>>>>, <<64526, "M", <<1578, 1605>>>>,
        <<64527, "M", <<1578, 1609>>>>, <<64528, "M", <<1578, 1610>>>>,
        <<64529, "M", <<1579, 1580>>>>, <<64530, "M", <<1579, 1605>>>>,
        <<64531, "M", <<1579, 1609>>>>, <<64532, "M", <<1579, 1610>>>>,
        <<64533, "M", <<1580, 1581>>>>, <<64534, "M", <<1580, 1605>>>>,
        <<64535, "M", <<1581, 1580>>>>, <<64536, "M", <<1581, 1605>>>>,
        <<64537, "M", <<1582, 1580>>>>, <<64538, "M", <<1582, 1581>>>>,
        <<64539, "M", <<1582, 1605>>>>, <<64540, "M", <<1587, 1580>>>>,
        <<64541, "M", <<1587, 1581>>>>, <<64542, "M", <<1587, 1582>>>>,
        <<64543, "M", <<1587, 1605>>>>, <<64544, "M", <<1589, 1581>>>>,
        <<64545, "M", <<1589, 1605>>>>, <<64546, "M", <<1590, 1580>>>>,
        <<64547, "M", <<1590, 1581>>>>, <<64548, "M", <<1590, 1582>>>>,
        <<64549, "M", <<1590, 1605>>>>, <<64550, "M", <<1591, 1581>>>>,
        <<64551, "M", <<1591, 1605>>>>, <<64552, "M", <<1592, 1605>>>>,
        <<64553, "M", <<1593, 1580>>>>, <<64554, "M", <<1593, 1605>>>>,
        <<64555, "M", <<1594, 1580>>>>, <<64556, "M", <<1594, 1605>>>>,
        <<64557, "M", <<1601, 1580>>>>, <<64558, "M", <<1601, 1581>>>>,
        <<64559, "M", <<1601, 1582>>>>, <<64560, "M", <<1601, 1605>>>>,
        <<64561, "M", <<1601, 1609>>>>, <<64562, "M", <<1601, 1610>>>>,
        <<64563, "M", <<1602, 1581>>>>, <<64564, "M", <<1602, 1605>>>>,
        <<64565, "M", <<1602, 1609>>>>, <<64566, "M", <<1602, 1610>>>>,
        <<64567, "M", <<1603, 1575>>>>, <<64568, "M", <<1603, 1580>>>>,
        <<64569, "M", <<1603, 1581>>>>, <<64570, "M", <<1603, 1582>>>>,
        <<64571, "M", <<1603, 1604>>>>, <<64572, "M", <<1603, 1605>>>>,
        <<64573, "M", <<1603, 1609>>>>, <<64574, "M", <<1603, 1610>>>>,
        <<64575, "M", <<1604, 1580>>>>, <<64576, "M", <<1604, 1581>>>>,
        <<64577, "M", <<1604, 1582>>>>, <<64578, "M", <<1604, 1605>>>>,
        <<64579, "M", <<1604, 1609>>>>, <<64580, "M", <<1604, 1610>>>>,
        <<64581, "M", <<1605, 1580>>>>, <<64582, "M", <<1605, 1581>>>>,
        <<64583, "M", <<1605, 1582>>>>, <<64584, "M", <<1605, 1605>>>>,
        <<64585, "M", <<1605, 1609>>>>, <<64586, "M", <<1605, 1610>>>>,
        <<64587, "M", <<1606, 1580>>>>, <<64588, "M", <<1606, 1581>>>>,
        <<64589, "M", <<1606, 1582>>>>, <<64590, "M", <<1606, 1605>>>>,
        <<64591, "M", <<1606, 1609>>>>, <<64592, "M", <<1606, 1610>>>>,
        <<64593, "M", <<1607, 1580>>>>, <<64594, "M", <<1607, 1605>>>>,
        <<64595, "M", <<1607, 1609>>>>, <<64596, "M", <<1607, 1610>>>>,
        <<64597, "M", <<1610, 1580>>>>, <<64598, "M", <<1610, 1581>>>>,
        <<64599, "M", <<1610, 1582>>>>, <<64600, "M", <<1610, 1605>>>>,
        <<64601, "M", <<1610, 1609>>>>, <<64602, "M", <<1610, 1610>>>>,
        <<64603, "M", <<1584, 1648>>>>, <<64604, "M", <<1585, 1648>>>>,
        <<64605, "M", <<1609, 1648>>>>, <<64606, "M", <<32, 1612, 1617>>>>,
        <<64607, "M", <<32, 1613, 1617>>>>, <<64608, "M", <<32, 1614, 1617>>>>,
        <<64609, "M", <<32, 1615, 1617>>>>, <<64610, "M", <<32, 1616, 1617>>>>,
        <<64611, "M", <<32, 1617, 1648>>>>, <<64612, "M", <<1574, 1585>>>>,
        <<64613, "M", <<1574, 1586>>>>, <<64614, "M", <<1574, 1605>>>>,
        <<64615, "M", <<1574, 1606>>>>, <<64616, "M", <<1574, 1609>>>>,
        <<64617, "M", <<1574, 1610>>>>, <<64618, "M", <<1576, 1585>>>>,
        <<64619, "M", <<1576, 1586>>>>, <<64620, "M", <<1576, 1605>>>>,
        <<64621, "M", <<1576, 1606>>>>, <<64622, "M", <<1576, 1609>>>>,
        <<64623, "M", <<1576, 1610>>>>, <<64624, "M", <<1578, 1585>>>>,
        <<64625, "M", <<1578, 1586>>>>, <<64626, "M", <<1578, 1605>>>>,
        <<64627, "M", <<1578, 1606>>>>, <<64628, "M", <<1578, 1609>>>>,
        <<64629, "M", <<1578, 1610>>>>, <<64630, "M", <<1579, 1585>>>>,
        <<64631, "M", <<1579, 1586>>>>, <<64632, "M", <<1579, 1605>>>>,
        <<64633, "M", <<1579, 1606>>>>, <<64634, "M", <<1579, 1609>>>>,
        <<64635, "M", <<1579, 1610>>>>, <<64636, "M", <<1601, 1609>>>>,
        <<64637, "M", <<1601, 1610>>>>, <<64638, "M", <<1602, 1609>>>>,
        <<64639, "M", <<1602, 1610>>>>, <<64640, "M", <<1603, 1575>>>>,
        <<64641, "M", <<1603, 1604>>>>, <<64642, "M", <<1603, 1605>>>>,
        <<64643, "M", <<1603, 1609>>>>, <<64644, "M", <<1603, 1610>>>>,
        <<64645, "M", <<1604, 1605>>>>, <<64646, "M", <<1604, 1609>>>>,
        <<64647, "M", <<1604, 1610>>>>, <<64648, "M", <<1605, 1575>>>>,
        <<64649, "M", <<1605, 1605>>>>, <<64650, "M", <<1606, 1585>>>>,
        <<64651, "M", <<1606, 1586>>>>, <<64652, "M", <<1606, 1605>>>>,
        <<64653, "M", <<1606, 1606>>>>, <<64654, "M", <<1606, 1609>>>>,
        <<64655, "M", <<1606, 1610>>>>, <<64656, "M", <<1609, 1648>>>>,
        <<64657, "M", <<1610, 1585>>>>, <<64658, "M", <<1610, 1586>>>>,
        <<64659, "M", <<1610, 1605>>>>, <<64660, "M", <<1610, 1606>>>>,
        <<64661, "M", <<1610, 1609>>>>, <<64662, "M", <<1610, 1610>>>>,
        <<64663, "M", <<1574, 1580>>>>, <<64664, "M", <<1574, 1581>>>>,
        <<64665, "M", <<1574, 1582>>>>, <<64666, "M", <<1574, 1605>>>>,
        <<64667, "M", <<1574, 1607>>>>, <<64668, "M", <<1576, 1580>>>>,
        <<64669, "M", <<1576, 1581>>>>, <<64670, "M", <<1576, 1582>>>>,
        <<64671, "M", <<1576, 1605>>>>, <<64672, "M", <<1576, 1607>>>>,
        <<64673, "M", <<1578, 1580>>>>, <<64674, "M", <<1578, 1581>>>>,
        <<64675, "M", <<1578, 1582>>>>, <<64676, "M", <<1578, 1605>>>>,
        <<64677, "M", <<1578, 1607>>>>, <<64678, "M", <<1579, 1605>>>>,
        <<64679, "M", <<1580, 1581>>>>, <<64680, "M", <<1580, 1605>>>>,
        <<64681, "M", <<1581, 1580>>>>, <<64682, "M", <<1581, 1605>>>>,
        <<64683, "M", <<1582, 1580>>>>, <<64684, "M", <<1582, 1605>>>>,
        <<64685, "M", <<1587, 1580>>>>, <<64686, "M", <<1587, 1581>>>>,
        <<64687, "M", <<1587, 1582>>>>, <<64688, "M", <<1587, 1605>>>>,
        <<64689, "M", <<1589, 1581>>>>, <<64690, "M", <<1589, 1582>>>>,
        <<64691, "M", <<1589, 1605>>>>, <<64692, "M", <<1590, 1580>>>>,
        <<64693, "M", <<1590, 1581>>>>, <<64694, "M", <<1590, 1582>>>>,
        <<64695, "M", <<1590, 1605>>>>, <<64696, "M", <<1591, 1581>>>>,
        <<64697, "M", <<1592, 1605>>>>, <<64698, "M", <<1593, 1580>>>>,
        <<64699, "M", <<1593, 1605>>>>, <<64700, "M", <<1594, 1580>>>>,
        <<64701, "M", <<1594, 1605>>>>, <<64702, "M", <<1601, 1580>>>>,
        <<64703, "M", <<1601, 1581>>>>, <<64704, "M", <<1601, 1582>>>>,
        <<64705, "M", <<1601, 1605>>>>, <<64706, "M", <<1602, 1581>>>>,
        <<64707, "M", <<1602, 1605>>>>, <<64708, "M", <<1603, 1580>>>>,
        <<64709, "M", <<1603, 1581>>>>, <<64710, "M", <<1603, 1582>>>>,
        <<64711, "M", <<1603, 1604>>>>, <<64712, "M", <<1603, 1605>>>>,
        <<64713, "M", <<1604, 1580>>>>, <<64714, "M", <<1604, 1581>>>>,
        <<64715, "M", <<1604, 1582>>>>, <<64716, "M", <<1604, 1605>>>>,
        <<64717, "M", <<1604, 1607>>>>, <<64718, "M", <<1605, 1580>>>>,
        <<64719, "M", <<1605, 1581>>>>, <<64720, "M", <<1605, 1582>>>>,
        <<64721, "M", <<1605, 1605>>>>, <<64722, "M", <<1606, 1580>>>>,
        <<64723, "M", <<1606, 1581>>>>, <<64724, "M", <<1606, 1582>>>>,
        <<64725, "M", <<1606, 1605>>>>, <<64726, "M", <<1606, 1607>>>>,
        <<64727, "M", <<1607, 1580>>>>, <<64728, "M", <<1607, 1605>>>>,
        <<64729, "M", <<1607, 1648>>>>, <<64730, "M", <<1610, 1580>>>>,
        <<64731, "M", <<1610, 1581>>>>, <<64732, "M", <<1610, 1582>>>>,
        <<64733, "M", <<1610, 1605>>>>, <<64734, "M", <<1610, 1607>>>>,
        <<64735, "M", <<1574, 1605>>>>, <<64736, "M", <<1574, 1607>>>>,
        <<64737, "M", <<1576, 1605>>>>, <<64738, "M", <<1576, 1607>>>>,
        <<64739, "M", <<1578, 1605>>>>, <<64740, "M", <<1578, 1607>>>>,
        <<64741, "M", <<1579, 1605>>>>, <<64742, "M", <<1579, 1607>>>>,
        <<64743, "M", <<1587, 1605>>>>, <<64744, "M", <<1587, 1607>>>>,
        <<64745, "M", <<1588, 1605>>>>, <<64746, "M", <<1588, 1607>>>>,
        <<64747, "M", <<1603, 1604>>>>, <<64748, "M", <<1603, 1605>>>>,
        <<64749, "M", <<1604, 1605>>>>, <<64750, "M", <<1606, 1605>>>>,
        <<64751, "M", <<1606, 1607>>>>, <<64752, "M", <<1610, 1605>>>>,
        <<64753, "M", <<1610, 1607>>>>, <<64754, "M", <<1600, 1614, 1617>>>>,
        <<64755, "M", <<1600, 1615, 1617>>>>, <<64756, "M", <<1600, 1616, 1617>>>>,
        <<64757, "M", <<1591, 1609>>>>, <<64758, "M", <<1591, 1610>>>>,
        <<64759, "M", <<1593, 1609>>>>, <<64760, "M", <<1593, 1610>>>>,
        <<64761, "M", <<1594, 1609>>>>, <<64762, "M", <<1594, 1610>>>>,
        <<64763, "M", <<1587, 1609>>>>, <<64764, "M", <<1587, 1610>>>>,
        <<64765, "M", <<1588, 1609>>>>, <<64766, "M", <<1588, 1610>>>>,
        <<64767, "M", <<1581, 1609>>>>, <<64768, "M", <<1581, 1610>>>>,
        <<64769, "M", <<1580, 1609>>>>, <<64770, "M", <<1580, 1610>>>>,
        <<64771, "M", <<1582, 1609>>>>, <<64772, "M", <<1582, 1610>>>>,
        <<64773, "M", <<1589, 1609>>>>, <<64774, "M", <<1589, 1610>>>>,
        <<64775, "M", <<1590, 1609>>>>, <<64776, "M", <<1590, 1610>>>>,
        <<64777, "M", <<1588, 1580>>>>, <<64778, "M", <<1588, 1581>>>>,
        <<64779, "M", <<1588, 1582>>>>, <<64780, "M", <<1588, 1605>>>>,
        <<64781, "M", <<1588, 1585>>>>, <<64782, "M", <<1587, 1585>>>>,
        <<64783, "M", <<1589, 1585>>>>, <<64784, "M", <<1590, 1585>>>>,
        <<64785, "M", <<1591, 1609>>>>, <<64786, "M", <<1591, 1610>>>>,
        <<64787, "M", <<1593, 1609>>>>, <<64788, "M", <<1593, 1610>>>>,
        <<64789, "M", <<1594, 1609>>>>, <<64790, "M", <<1594, 1610>>>>,
        <<64791, "M", <<1587, 1609>>>>, <<64792, "M", <<1587, 1610>>>>,
        <<64793, "M", <<1588, 1609>>>>, <<64794, "M", <<1588, 1610>>>>,
        <<64795, "M", <<1581, 1609>>>>, <<64796, "M", <<1581, 1610>>>>,
        <<64797, "M", <<1580, 1609>>>>, <<64798, "M", <<1580, 1610>>>>,
        <<64799, "M", <<1582, 1609>>>>, <<64800, "M", <<1582, 1610>>>>,
        <<64801, "M", <<1589, 1609>>>>, <<64802, "M", <<1589, 1610>>>>,
        <<64803, "M", <<1590, 1609>>>>, <<64804, "M", <<1590, 1610>>>>,
        <<64805, "M", <<1588, 1580>>>>, <<64806, "M", <<1588, 1581>>>>,
        <<64807, "M", <<1588, 1582>>>>, <<64808, "M", <<1588, 1605>>>>,
        <<64809, "M", <<1588, 1585>>>>, <<64810, "M", <<1587, 1585>>>>,
        <<64811, "M", <<1589, 1585>>>>, <<64812, "M", <<1590, 1585>>>>,
        <<64813, "M", <<1588, 1580>>>>, <<64814, "M", <<1588, 1581>>>>,
        <<64815, "M", <<1588, 1582>>>>, <<64816, "M", <<1588, 1605>>>>,
        <<64817, "M", <<1587, 1607>>>>, <<64818, "M", <<1588, 1607>>>>,
        <<64819, "M", <<1591, 1605>>>>, <<64820, "M", <<1587, 1580>>>>,
        <<64821, "M", <<1587, 1581>>>>, <<64822, "M", <<1587, 1582>>>>,
        <<64823, "M", <<1588, 1580>>>>, <<64824, "M", <<1588, 1581>>>>,
        <<64825, "M", <<1588, 1582>>>>, <<64826, "M", <<1591, 1605>>>>,
        <<64827, "M", <<1592, 1605>>>>, <<64828, "M", <<1575, 1611>>>>, <<64830, "V">>,
        <<64848, "M", <<1578, 1580, 1605>>>>, <<64849, "M", <<1578, 1581, 1580>>>>,
        <<64851, "M", <<1578, 1581, 1605>>>>, <<64852, "M", <<1578, 1582, 1605>>>>,
        <<64853, "M", <<1578, 1605, 1580>>>>, <<64854, "M", <<1578, 1605, 1581>>>>,
        <<64855, "M", <<1578, 1605, 1582>>>>, <<64856, "M", <<1580, 1605, 1581>>>>,
        <<64858, "M", <<1581, 1605, 1610>>>>, <<64859, "M", <<1581, 1605, 1609>>>>,
        <<64860, "M", <<1587, 1581, 1580>>>>, <<64861, "M", <<1587, 1580, 1581>>>>,
        <<64862, "M", <<1587, 1580, 1609>>>>, <<64863, "M", <<1587, 1605, 1581>>>>,
        <<64865, "M", <<1587, 1605, 1580>>>>, <<64866, "M", <<1587, 1605, 1605>>>>,
        <<64868, "M", <<1589, 1581, 1581>>>>, <<64870, "M", <<1589, 1605, 1605>>>>,
        <<64871, "M", <<1588, 1581, 1605>>>>, <<64873, "M", <<1588, 1580, 1610>>>>,
        <<64874, "M", <<1588, 1605, 1582>>>>, <<64876, "M", <<1588, 1605, 1605>>>>,
        <<64878, "M", <<1590, 1581, 1609>>>>, <<64879, "M", <<1590, 1582, 1605>>>>,
        <<64881, "M", <<1591, 1605, 1581>>>>, <<64883, "M", <<1591, 1605, 1605>>>>,
        <<64884, "M", <<1591, 1605, 1610>>>>, <<64885, "M", <<1593, 1580, 1605>>>>,
        <<64886, "M", <<1593, 1605, 1605>>>>, <<64888, "M", <<1593, 1605, 1609>>>>,
        <<64889, "M", <<1594, 1605, 1605>>>>, <<64890, "M", <<1594, 1605, 1610>>>>,
        <<64891, "M", <<1594, 1605, 1609>>>>, <<64892, "M", <<1601, 1582, 1605>>>>,
        <<64894, "M", <<1602, 1605, 1581>>>>, <<64895, "M", <<1602, 1605, 1605>>>>,
        <<64896, "M", <<1604, 1581, 1605>>>>, <<64897, "M", <<1604, 1581, 1610>>>>,
        <<64898, "M", <<1604, 1581, 1609>>>>, <<64899, "M", <<1604, 1580, 1580>>>>,
        <<64901, "M", <<1604, 1582, 1605>>>>, <<64903, "M", <<1604, 1605, 1581>>>>,
        <<64905, "M", <<1605, 1581, 1580>>>>, <<64906, "M", <<1605, 1581, 1605>>>>,
        <<64907, "M", <<1605, 1581, 1610>>>>, <<64908, "M", <<1605, 1580, 1581>>>>,
        <<64909, "M", <<1605, 1580, 1605>>>>, <<64910, "M", <<1605, 1582, 1580>>>>,
        <<64911, "M", <<1605, 1582, 1605>>>>, <<64912, "X">>,
        <<64914, "M", <<1605, 1580, 1582>>>>, <<64915, "M", <<1607, 1605, 1580>>>>,
        <<64916, "M", <<1607, 1605, 1605>>>>, <<64917, "M", <<1606, 1581, 1605>>>>,
        <<64918, "M", <<1606, 1581, 1609>>>>, <<64919, "M", <<1606, 1580, 1605>>>>,
        <<64921, "M", <<1606, 1580, 1609>>>>, <<64922, "M", <<1606, 1605, 1610>>>>,
        <<64923, "M", <<1606, 1605, 1609>>>>, <<64924, "M", <<1610, 1605, 1605>>>>,
        <<64926, "M", <<1576, 1582, 1610>>>>, <<64927, "M", <<1578, 1580, 1610>>>>,
        <<64928, "M", <<1578, 1580, 1609>>>>, <<64929, "M", <<1578, 1582, 1610>>>>,
        <<64930, "M", <<1578, 1582, 1609>>>>, <<64931, "M", <<1578, 1605, 1610>>>>,
        <<64932, "M", <<1578, 1605, 1609>>>>, <<64933, "M", <<1580, 1605, 1610>>>>,
        <<64934, "M", <<1580, 1581, 1609>>>>, <<64935, "M", <<1580, 1605, 1609>>>>,
        <<64936, "M", <<1587, 1582, 1609>>>>, <<64937, "M", <<1589, 1581, 1610>>>>,
        <<64938, "M", <<1588, 1581, 1610>>>>, <<64939, "M", <<1590, 1581, 1610>>>>,
        <<64940, "M", <<1604, 1580, 1610>>>>, <<64941, "M", <<1604, 1605, 1610>>>>,
        <<64942, "M", <<1610, 1581, 1610>>>>, <<64943, "M", <<1610, 1580, 1610>>>>,
        <<64944, "M", <<1610, 1605, 1610>>>>, <<64945, "M", <<1605, 1605, 1610>>>>,
        <<64946, "M", <<1602, 1605, 1610>>>>, <<64947, "M", <<1606, 1581, 1610>>>>,
        <<64948, "M", <<1602, 1605, 1581>>>>, <<64949, "M", <<1604, 1581, 1605>>>>,
        <<64950, "M", <<1593, 1605, 1610>>>>, <<64951, "M", <<1603, 1605, 1610>>>>,
        <<64952, "M", <<1606, 1580, 1581>>>>, <<64953, "M", <<1605, 1582, 1610>>>>,
        <<64954, "M", <<1604, 1580, 1605>>>>, <<64955, "M", <<1603, 1605, 1605>>>>,
        <<64956, "M", <<1604, 1580, 1605>>>>, <<64957, "M", <<1606, 1580, 1581>>>>,
        <<64958, "M", <<1580, 1581, 1610>>>>, <<64959, "M", <<1581, 1580, 1610>>>>,
        <<64960, "M", <<1605, 1580, 1610>>>>, <<64961, "M", <<1601, 1605, 1610>>>>,
        <<64962, "M", <<1576, 1581, 1610>>>>, <<64963, "M", <<1603, 1605, 1605>>>>,
        <<64964, "M", <<1593, 1580, 1605>>>>, <<64965, "M", <<1589, 1605, 1605>>>>,
        <<64966, "M", <<1587, 1582, 1610>>>>, <<64967, "M", <<1606, 1580, 1610>>>>,
        <<64968, "X">>, <<64975, "V">>, <<64976, "X">>, <<65008, "M", <<1589, 1604, 1746>>>>,
        <<65009, "M", <<1602, 1604, 1746>>>>, <<65010, "M", <<1575, 1604, 1604, 1607>>>>,
        <<65011, "M", <<1575, 1603, 1576, 1585>>>>, <<65012, "M", <<1605, 1581, 1605, 1583>>>>,
        <<65013, "M", <<1589, 1604, 1593, 1605>>>>, <<65014, "M", <<1585, 1587, 1608, 1604>>>>,
        <<65015, "M", <<1593, 1604, 1610, 1607>>>>, <<65016, "M", <<1608, 1587, 1604, 1605>>>>,
        <<65017, "M", <<1589, 1604, 1609>>>>,
        <<65018, "M", <<1589, 1604, 1609, 32, 1575, 1604, 1604, 1607, 32, 1593, 1604, 1610, 1607, 32, 1608, 1587, 1604, 1605>>>>,
        <<65019, "M", <<1580, 1604, 32, 1580, 1604, 1575, 1604, 1607>>>>,
        <<65020, "M", <<1585, 1740, 1575, 1604>>>>, <<65021, "V">>, <<65024, "I">>,
        <<65040, "M", <<44>>>>, <<65041, "M", <<12289>>>>, <<65042, "X">>,
        <<65043, "M", <<58>>>>, <<65044, "M", <<59>>>>, <<65045, "M", <<33>>>>,
        <<65046, "M", <<63>>>>, <<65047, "M", <<12310>>>>, <<65048, "M", <<12311>>>>,
        <<65049, "X">>, <<65056, "V">>, <<65072, "X">>, <<65073, "M", <<8212>>>>,
        <<65074, "M", <<8211>>>>, <<65075, "M", <<95>>>>, <<65077, "M", <<40>>>>,
        <<65078, "M", <<41>>>>, <<65079, "M", <<123>>>>, <<65080, "M", <<125>>>>,
        <<65081, "M", <<12308>>>>, <<65082, "M", <<12309>>>>, <<65083, "M", <<12304>>>>,
        <<65084, "M", <<12305>>>>, <<65085, "M", <<12298>>>>, <<65086, "M", <<12299>>>>,
        <<65087, "M", <<12296>>>>, <<65088, "M", <<12297>>>>, <<65089, "M", <<12300>>>>,
        <<65090, "M", <<12301>>>>, <<65091, "M", <<12302>>>>, <<65092, "M", <<12303>>>>,
        <<65093, "V">>, <<65095, "M", <<91>>>>, <<65096, "M", <<93>>>>,
        <<65097, "M", <<32, 773>>>>, <<65101, "M", <<95>>>>, <<65104, "M", <<44>>>>,
        <<65105, "M", <<12289>>>>, <<65106, "X">>, <<65108, "M", <<59>>>>,
        <<65109, "M", <<58>>>>, <<65110, "M", <<63>>>>, <<65111, "M", <<33>>>>,
        <<65112, "M", <<8212>>>>, <<65113, "M", <<40>>>>, <<65114, "M", <<41>>>>,
        <<65115, "M", <<123>>>>, <<65116, "M", <<125>>>>, <<65117, "M", <<12308>>>>,
        <<65118, "M", <<12309>>>>, <<65119, "M", <<35>>>>, <<65120, "M", <<38>>>>,
        <<65121, "M", <<42>>>>, <<65122, "M", <<43>>>>, <<65123, "M", <<45>>>>,
        <<65124, "M", <<60>>>>, <<65125, "M", <<62>>>>, <<65126, "M", <<61>>>>, <<65127, "X">>,
        <<65128, "M", <<92>>>>, <<65129, "M", <<36>>>>, <<65130, "M", <<37>>>>,
        <<65131, "M", <<64>>>>, <<65132, "X">>, <<65136, "M", <<32, 1611>>>>,
        <<65137, "M", <<1600, 1611>>>>, <<65138, "M", <<32, 1612>>>>, <<65139, "V">>,
        <<65140, "M", <<32, 1613>>>>, <<65141, "X">>, <<65142, "M", <<32, 1614>>>>,
        <<65143, "M", <<1600, 1614>>>>, <<65144, "M", <<32, 1615>>>>,
        <<65145, "M", <<1600, 1615>>>>, <<65146, "M", <<32, 1616>>>>,
        <<65147, "M", <<1600, 1616>>>>, <<65148, "M", <<32, 1617>>>>,
        <<65149, "M", <<1600, 1617>>>>, <<65150, "M", <<32, 1618>>>>,
        <<65151, "M", <<1600, 1618>>>>, <<65152, "M", <<1569>>>>, <<65153, "M", <<1570>>>>,
        <<65155, "M", <<1571>>>>, <<65157, "M", <<1572>>>>, <<65159, "M", <<1573>>>>,
        <<65161, "M", <<1574>>>>, <<65165, "M", <<1575>>>>, <<65167, "M", <<1576>>>>,
        <<65171, "M", <<1577>>>>, <<65173, "M", <<1578>>>>, <<65177, "M", <<1579>>>>,
        <<65181, "M", <<1580>>>>, <<65185, "M", <<1581>>>>, <<65189, "M", <<1582>>>>,
        <<65193, "M", <<1583>>>>, <<65195, "M", <<1584>>>>, <<65197, "M", <<1585>>>>,
        <<65199, "M", <<1586>>>>, <<65201, "M", <<1587>>>>, <<65205, "M", <<1588>>>>,
        <<65209, "M", <<1589>>>>, <<65213, "M", <<1590>>>>, <<65217, "M", <<1591>>>>,
        <<65221, "M", <<1592>>>>, <<65225, "M", <<1593>>>>, <<65229, "M", <<1594>>>>,
        <<65233, "M", <<1601>>>>, <<65237, "M", <<1602>>>>, <<65241, "M", <<1603>>>>,
        <<65245, "M", <<1604>>>>, <<65249, "M", <<1605>>>>, <<65253, "M", <<1606>>>>,
        <<65257, "M", <<1607>>>>, <<65261, "M", <<1608>>>>, <<65263, "M", <<1609>>>>,
        <<65265, "M", <<1610>>>>, <<65269, "M", <<1604, 1570>>>>,
        <<65271, "M", <<1604, 1571>>>>, <<65273, "M", <<1604, 1573>>>>,
        <<65275, "M", <<1604, 1575>>>>, <<65277, "X">>, <<65279, "I">>, <<65280, "X">>,
        <<65281, "M", <<33>>>>, <<65282, "M", <<34>>>>, <<65283, "M", <<35>>>>,
        <<65284, "M", <<36>>>>, <<65285, "M", <<37>>>>, <<65286, "M", <<38>>>>,
        <<65287, "M", <<39>>>>, <<65288, "M", <<40>>>>, <<65289, "M", <<41>>>>,
        <<65290, "M", <<42>>>>, <<65291, "M", <<43>>>>, <<65292, "M", <<44>>>>,
        <<65293, "M", <<45>>>>, <<65294, "M", <<46>>>>, <<65295, "M", <<47>>>>,
        <<65296, "M", <<48>>>>, <<65297, "M", <<49>>>>, <<65298, "M", <<50>>>>,
        <<65299, "M", <<51>>>>, <<65300, "M", <<52>>>>, <<65301, "M", <<53>>>>,
        <<65302, "M", <<54>>>>, <<65303, "M", <<55>>>>, <<65304, "M", <<56>>>>,
        <<65305, "M", <<57>>>>, <<65306, "M", <<58>>>>, <<65307, "M", <<59>>>>,
        <<65308, "M", <<60>>>>, <<65309, "M", <<61>>>>, <<65310, "M", <<62>>>>,
        <<65311, "M", <<63>>>>, <<65312, "M", <<64>>>>, <<65313, "M", <<97>>>>,
        <<65314, "M", <<98>>>>, <<65315, "M", <<99>>>>, <<65316, "M", <<100>>>>,
        <<65317, "M", <<101>>>>, <<65318, "M", <<102>>>>, <<65319, "M", <<103>>>>,
        <<65320, "M", <<104>>>>, <<65321, "M", <<105>>>>, <<65322, "M", <<106>>>>,
        <<65323, "M", <<107>>>>, <<65324, "M", <<108>>>>, <<65325, "M", <<109>>>>,
        <<65326, "M", <<110>>>>, <<65327, "M", <<111>>>>, <<65328, "M", <<112>>>>,
        <<65329, "M", <<113>>>>, <<65330, "M", <<114>>>>, <<65331, "M", <<115>>>>,
        <<65332, "M", <<116>>>>, <<65333, "M", <<117>>>>, <<65334, "M", <<118>>>>,
        <<65335, "M", <<119>>>>, <<65336, "M", <<120>>>>, <<65337, "M", <<121>>>>,
        <<65338, "M", <<122>>>>, <<65339, "M", <<91>>>>, <<65340, "M", <<92>>>>,
        <<65341, "M", <<93>>>>, <<65342, "M", <<94>>>>, <<65343, "M", <<95>>>>,
        <<65344, "M", <<96>>>>, <<65345, "M", <<97>>>>, <<65346, "M", <<98>>>>,
        <<65347, "M", <<99>>>>, <<65348, "M", <<100>>>>, <<65349, "M", <<101>>>>,
        <<65350, "M", <<102>>>>, <<65351, "M", <<103>>>>, <<65352, "M", <<104>>>>,
        <<65353, "M", <<105>>>>, <<65354, "M", <<106>>>>, <<65355, "M", <<107>>>>,
        <<65356, "M", <<108>>>>, <<65357, "M", <<109>>>>, <<65358, "M", <<110>>>>,
        <<65359, "M", <<111>>>>, <<65360, "M", <<112>>>>, <<65361, "M", <<113>>>>,
        <<65362, "M", <<114>>>>, <<65363, "M", <<115>>>>, <<65364, "M", <<116>>>>,
        <<65365, "M", <<117>>>>, <<65366, "M", <<118>>>>, <<65367, "M", <<119>>>>,
        <<65368, "M", <<120>>>>, <<65369, "M", <<121>>>>, <<65370, "M", <<122>>>>,
        <<65371, "M", <<123>>>>, <<65372, "M", <<124>>>>, <<65373, "M", <<125>>>>,
        <<65374, "M", <<126>>>>, <<65375, "M", <<10629>>>>, <<65376, "M", <<10630>>>>,
        <<65377, "M", <<46>>>>, <<65378, "M", <<12300>>>>, <<65379, "M", <<12301>>>>,
        <<65380, "M", <<12289>>>>, <<65381, "M", <<12539>>>>, <<65382, "M", <<12530>>>>,
        <<65383, "M", <<12449>>>>, <<65384, "M", <<12451>>>>, <<65385, "M", <<12453>>>>,
        <<65386, "M", <<12455>>>>, <<65387, "M", <<12457>>>>, <<65388, "M", <<12515>>>>,
        <<65389, "M", <<12517>>>>, <<65390, "M", <<12519>>>>, <<65391, "M", <<12483>>>>,
        <<65392, "M", <<12540>>>>, <<65393, "M", <<12450>>>>, <<65394, "M", <<12452>>>>,
        <<65395, "M", <<12454>>>>, <<65396, "M", <<12456>>>>, <<65397, "M", <<12458>>>>,
        <<65398, "M", <<12459>>>>, <<65399, "M", <<12461>>>>, <<65400, "M", <<12463>>>>,
        <<65401, "M", <<12465>>>>, <<65402, "M", <<12467>>>>, <<65403, "M", <<12469>>>>,
        <<65404, "M", <<12471>>>>, <<65405, "M", <<12473>>>>, <<65406, "M", <<12475>>>>,
        <<65407, "M", <<12477>>>>, <<65408, "M", <<12479>>>>, <<65409, "M", <<12481>>>>,
        <<65410, "M", <<12484>>>>, <<65411, "M", <<12486>>>>, <<65412, "M", <<12488>>>>,
        <<65413, "M", <<12490>>>>, <<65414, "M", <<12491>>>>, <<65415, "M", <<12492>>>>,
        <<65416, "M", <<12493>>>>, <<65417, "M", <<12494>>>>, <<65418, "M", <<12495>>>>,
        <<65419, "M", <<12498>>>>, <<65420, "M", <<12501>>>>, <<65421, "M", <<12504>>>>,
        <<65422, "M", <<12507>>>>, <<65423, "M", <<12510>>>>, <<65424, "M", <<12511>>>>,
        <<65425, "M", <<12512>>>>, <<65426, "M", <<12513>>>>, <<65427, "M", <<12514>>>>,
        <<65428, "M", <<12516>>>>, <<65429, "M", <<12518>>>>, <<65430, "M", <<12520>>>>,
        <<65431, "M", <<12521>>>>, <<65432, "M", <<12522>>>>, <<65433, "M", <<12523>>>>,
        <<65434, "M", <<12524>>>>, <<65435, "M", <<12525>>>>, <<65436, "M", <<12527>>>>,
        <<65437, "M", <<12531>>>>, <<65438, "M", <<12441>>>>, <<65439, "M", <<12442>>>>,
        <<65440, "X">>, <<65441, "M", <<4352>>>>, <<65442, "M", <<4353>>>>,
        <<65443, "M", <<4522>>>>, <<65444, "M", <<4354>>>>, <<65445, "M", <<4524>>>>,
        <<65446, "M", <<4525>>>>, <<65447, "M", <<4355>>>>, <<65448, "M", <<4356>>>>,
        <<65449, "M", <<4357>>>>, <<65450, "M", <<4528>>>>, <<65451, "M", <<4529>>>>,
        <<65452, "M", <<4530>>>>, <<65453, "M", <<4531>>>>, <<65454, "M", <<4532>>>>,
        <<65455, "M", <<4533>>>>, <<65456, "M", <<4378>>>>, <<65457, "M", <<4358>>>>,
        <<65458, "M", <<4359>>>>, <<65459, "M", <<4360>>>>, <<65460, "M", <<4385>>>>,
        <<65461, "M", <<4361>>>>, <<65462, "M", <<4362>>>>, <<65463, "M", <<4363>>>>,
        <<65464, "M", <<4364>>>>, <<65465, "M", <<4365>>>>, <<65466, "M", <<4366>>>>,
        <<65467, "M", <<4367>>>>, <<65468, "M", <<4368>>>>, <<65469, "M", <<4369>>>>,
        <<65470, "M", <<4370>>>>, <<65471, "X">>, <<65474, "M", <<4449>>>>,
        <<65475, "M", <<4450>>>>, <<65476, "M", <<4451>>>>, <<65477, "M", <<4452>>>>,
        <<65478, "M", <<4453>>>>, <<65479, "M", <<4454>>>>, <<65480, "X">>,
        <<65482, "M", <<4455>>>>, <<65483, "M", <<4456>>>>, <<65484, "M", <<4457>>>>,
        <<65485, "M", <<4458>>>>, <<65486, "M", <<4459>>>>, <<65487, "M", <<4460>>>>,
        <<65488, "X">>, <<65490, "M", <<4461>>>>, <<65491, "M", <<4462>>>>,
        <<65492, "M", <<4463>>>>, <<65493, "M", <<4464>>>>, <<65494, "M", <<4465>>>>,
        <<65495, "M", <<4466>>>>, <<65496, "X">>, <<65498, "M", <<4467>>>>,
        <<65499, "M", <<4468>>>>, <<65500, "M", <<4469>>>>, <<65501, "X">>,
        <<65504, "M", <<162>>>>, <<65505, "M", <<163>>>>, <<65506, "M", <<172>>>>,
        <<65507, "M", <<32, 772>>>>, <<65508, "M", <<166>>>>, <<65509, "M", <<165>>>>,
        <<65510, "M", <<8361>>>>, <<65511, "X">>, <<65512, "M", <<9474>>>>,
        <<65513, "M", <<8592>>>>, <<65514, "M", <<8593>>>>, <<65515, "M", <<8594>>>>,
        <<65516, "M", <<8595>>>>, <<65517, "M", <<9632>>>>, <<65518, "M", <<9675>>>>,
        <<65519, "X">>, <<65536, "V">>, <<65548, "X">>, <<65549, "V">>, <<65575, "X">>,
        <<65576, "V">>, <<65595, "X">>, <<65596, "V">>, <<65598, "X">>, <<65599, "V">>,
        <<65614, "X">>, <<65616, "V">>, <<65630, "X">>, <<65664, "V">>, <<65787, "X">>,
        <<65792, "V">>, <<65795, "X">>, <<65799, "V">>, <<65844, "X">>, <<65847, "V">>,
        <<65935, "X">>, <<65936, "V">>, <<65949, "X">>, <<65952, "V">>, <<65953, "X">>,
        <<66000, "V">>, <<66046, "X">>, <<66176, "V">>, <<66205, "X">>, <<66208, "V">>,
        <<66257, "X">>, <<66272, "V">>, <<66300, "X">>, <<66304, "V">>, <<66340, "X">>,
        <<66349, "V">>, <<66379, "X">>, <<66384, "V">>, <<66427, "X">>, <<66432, "V">>,
        <<66462, "X">>, <<66463, "V">>, <<66500, "X">>, <<66504, "V">>, <<66518, "X">>,
        <<66560, "M", <<66600>>>>, <<66561, "M", <<66601>>>>, <<66562, "M", <<66602>>>>,
        <<66563, "M", <<66603>>>>, <<66564, "M", <<66604>>>>, <<66565, "M", <<66605>>>>,
        <<66566, "M", <<66606>>>>, <<66567, "M", <<66607>>>>, <<66568, "M", <<66608>>>>,
        <<66569, "M", <<66609>>>>, <<66570, "M", <<66610>>>>, <<66571, "M", <<66611>>>>,
        <<66572, "M", <<66612>>>>, <<66573, "M", <<66613>>>>, <<66574, "M", <<66614>>>>,
        <<66575, "M", <<66615>>>>, <<66576, "M", <<66616>>>>, <<66577, "M", <<66617>>>>,
        <<66578, "M", <<66618>>>>, <<66579, "M", <<66619>>>>, <<66580, "M", <<66620>>>>,
        <<66581, "M", <<66621>>>>, <<66582, "M", <<66622>>>>, <<66583, "M", <<66623>>>>,
        <<66584, "M", <<66624>>>>, <<66585, "M", <<66625>>>>, <<66586, "M", <<66626>>>>,
        <<66587, "M", <<66627>>>>, <<66588, "M", <<66628>>>>, <<66589, "M", <<66629>>>>,
        <<66590, "M", <<66630>>>>, <<66591, "M", <<66631>>>>, <<66592, "M", <<66632>>>>,
        <<66593, "M", <<66633>>>>, <<66594, "M", <<66634>>>>, <<66595, "M", <<66635>>>>,
        <<66596, "M", <<66636>>>>, <<66597, "M", <<66637>>>>, <<66598, "M", <<66638>>>>,
        <<66599, "M", <<66639>>>>, <<66600, "V">>, <<66718, "X">>, <<66720, "V">>,
        <<66730, "X">>, <<66736, "M", <<66776>>>>, <<66737, "M", <<66777>>>>,
        <<66738, "M", <<66778>>>>, <<66739, "M", <<66779>>>>, <<66740, "M", <<66780>>>>,
        <<66741, "M", <<66781>>>>, <<66742, "M", <<66782>>>>, <<66743, "M", <<66783>>>>,
        <<66744, "M", <<66784>>>>, <<66745, "M", <<66785>>>>, <<66746, "M", <<66786>>>>,
        <<66747, "M", <<66787>>>>, <<66748, "M", <<66788>>>>, <<66749, "M", <<66789>>>>,
        <<66750, "M", <<66790>>>>, <<66751, "M", <<66791>>>>, <<66752, "M", <<66792>>>>,
        <<66753, "M", <<66793>>>>, <<66754, "M", <<66794>>>>, <<66755, "M", <<66795>>>>,
        <<66756, "M", <<66796>>>>, <<66757, "M", <<66797>>>>, <<66758, "M", <<66798>>>>,
        <<66759, "M", <<66799>>>>, <<66760, "M", <<66800>>>>, <<66761, "M", <<66801>>>>,
        <<66762, "M", <<66802>>>>, <<66763, "M", <<66803>>>>, <<66764, "M", <<66804>>>>,
        <<66765, "M", <<66805>>>>, <<66766, "M", <<66806>>>>, <<66767, "M", <<66807>>>>,
        <<66768, "M", <<66808>>>>, <<66769, "M", <<66809>>>>, <<66770, "M", <<66810>>>>,
        <<66771, "M", <<66811>>>>, <<66772, "X">>, <<66776, "V">>, <<66812, "X">>,
        <<66816, "V">>, <<66856, "X">>, <<66864, "V">>, <<66916, "X">>, <<66927, "V">>,
        <<66928, "M", <<66967>>>>, <<66929, "M", <<66968>>>>, <<66930, "M", <<66969>>>>,
        <<66931, "M", <<66970>>>>, <<66932, "M", <<66971>>>>, <<66933, "M", <<66972>>>>,
        <<66934, "M", <<66973>>>>, <<66935, "M", <<66974>>>>, <<66936, "M", <<66975>>>>,
        <<66937, "M", <<66976>>>>, <<66938, "M", <<66977>>>>, <<66939, "X">>,
        <<66940, "M", <<66979>>>>, <<66941, "M", <<66980>>>>, <<66942, "M", <<66981>>>>,
        <<66943, "M", <<66982>>>>, <<66944, "M", <<66983>>>>, <<66945, "M", <<66984>>>>,
        <<66946, "M", <<66985>>>>, <<66947, "M", <<66986>>>>, <<66948, "M", <<66987>>>>,
        <<66949, "M", <<66988>>>>, <<66950, "M", <<66989>>>>, <<66951, "M", <<66990>>>>,
        <<66952, "M", <<66991>>>>, <<66953, "M", <<66992>>>>, <<66954, "M", <<66993>>>>,
        <<66955, "X">>, <<66956, "M", <<66995>>>>, <<66957, "M", <<66996>>>>,
        <<66958, "M", <<66997>>>>, <<66959, "M", <<66998>>>>, <<66960, "M", <<66999>>>>,
        <<66961, "M", <<67000>>>>, <<66962, "M", <<67001>>>>, <<66963, "X">>,
        <<66964, "M", <<67003>>>>, <<66965, "M", <<67004>>>>, <<66966, "X">>, <<66967, "V">>,
        <<66978, "X">>, <<66979, "V">>, <<66994, "X">>, <<66995, "V">>, <<67002, "X">>,
        <<67003, "V">>, <<67005, "X">>, <<67072, "V">>, <<67383, "X">>, <<67392, "V">>,
        <<67414, "X">>, <<67424, "V">>, <<67432, "X">>, <<67456, "V">>, <<67457, "M", <<720>>>>,
        <<67458, "M", <<721>>>>, <<67459, "M", <<230>>>>, <<67460, "M", <<665>>>>,
        <<67461, "M", <<595>>>>, <<67462, "X">>, <<67463, "M", <<675>>>>,
        <<67464, "M", <<43878>>>>, <<67465, "M", <<677>>>>, <<67466, "M", <<676>>>>,
        <<67467, "M", <<598>>>>, <<67468, "M", <<599>>>>, <<67469, "M", <<7569>>>>,
        <<67470, "M", <<600>>>>, <<67471, "M", <<606>>>>, <<67472, "M", <<681>>>>,
        <<67473, "M", <<612>>>>, <<67474, "M", <<610>>>>, <<67475, "M", <<608>>>>,
        <<67476, "M", <<667>>>>, <<67477, "M", <<295>>>>, <<67478, "M", <<668>>>>,
        <<67479, "M", <<615>>>>, <<67480, "M", <<644>>>>, <<67481, "M", <<682>>>>,
        <<67482, "M", <<683>>>>, <<67483, "M", <<620>>>>, <<67484, "M", <<122628>>>>,
        <<67485, "M", <<42894>>>>, <<67486, "M", <<622>>>>, <<67487, "M", <<122629>>>>,
        <<67488, "M", <<654>>>>, <<67489, "M", <<122630>>>>, <<67490, "M", <<248>>>>,
        <<67491, "M", <<630>>>>, <<67492, "M", <<631>>>>, <<67493, "M", <<113>>>>,
        <<67494, "M", <<634>>>>, <<67495, "M", <<122632>>>>, <<67496, "M", <<637>>>>,
        <<67497, "M", <<638>>>>, <<67498, "M", <<640>>>>, <<67499, "M", <<680>>>>,
        <<67500, "M", <<678>>>>, <<67501, "M", <<43879>>>>, <<67502, "M", <<679>>>>,
        <<67503, "M", <<648>>>>, <<67504, "M", <<11377>>>>, <<67505, "X">>,
        <<67506, "M", <<655>>>>, <<67507, "M", <<673>>>>, <<67508, "M", <<674>>>>,
        <<67509, "M", <<664>>>>, <<67510, "M", <<448>>>>, <<67511, "M", <<449>>>>,
        <<67512, "M", <<450>>>>, <<67513, "M", <<122634>>>>, <<67514, "M", <<122654>>>>,
        <<67515, "X">>, <<67584, "V">>, <<67590, "X">>, <<67592, "V">>, <<67593, "X">>,
        <<67594, "V">>, <<67638, "X">>, <<67639, "V">>, <<67641, "X">>, <<67644, "V">>,
        <<67645, "X">>, <<67647, "V">>, <<67670, "X">>, <<67671, "V">>, <<67743, "X">>,
        <<67751, "V">>, <<67760, "X">>, <<67808, "V">>, <<67827, "X">>, <<67828, "V">>,
        <<67830, "X">>, <<67835, "V">>, <<67868, "X">>, <<67871, "V">>, <<67898, "X">>,
        <<67903, "V">>, <<67904, "X">>, <<67968, "V">>, <<68024, "X">>, <<68028, "V">>,
        <<68048, "X">>, <<68050, "V">>, <<68100, "X">>, <<68101, "V">>, <<68103, "X">>,
        <<68108, "V">>, <<68116, "X">>, <<68117, "V">>, <<68120, "X">>, <<68121, "V">>,
        <<68150, "X">>, <<68152, "V">>, <<68155, "X">>, <<68159, "V">>, <<68169, "X">>,
        <<68176, "V">>, <<68185, "X">>, <<68192, "V">>, <<68256, "X">>, <<68288, "V">>,
        <<68327, "X">>, <<68331, "V">>, <<68343, "X">>, <<68352, "V">>, <<68406, "X">>,
        <<68409, "V">>, <<68438, "X">>, <<68440, "V">>, <<68467, "X">>, <<68472, "V">>,
        <<68498, "X">>, <<68505, "V">>, <<68509, "X">>, <<68521, "V">>, <<68528, "X">>,
        <<68608, "V">>, <<68681, "X">>, <<68736, "M", <<68800>>>>, <<68737, "M", <<68801>>>>,
        <<68738, "M", <<68802>>>>, <<68739, "M", <<68803>>>>, <<68740, "M", <<68804>>>>,
        <<68741, "M", <<68805>>>>, <<68742, "M", <<68806>>>>, <<68743, "M", <<68807>>>>,
        <<68744, "M", <<68808>>>>, <<68745, "M", <<68809>>>>, <<68746, "M", <<68810>>>>,
        <<68747, "M", <<68811>>>>, <<68748, "M", <<68812>>>>, <<68749, "M", <<68813>>>>,
        <<68750, "M", <<68814>>>>, <<68751, "M", <<68815>>>>, <<68752, "M", <<68816>>>>,
        <<68753, "M", <<68817>>>>, <<68754, "M", <<68818>>>>, <<68755, "M", <<68819>>>>,
        <<68756, "M", <<68820>>>>, <<68757, "M", <<68821>>>>, <<68758, "M", <<68822>>>>,
        <<68759, "M", <<68823>>>>, <<68760, "M", <<68824>>>>, <<68761, "M", <<68825>>>>,
        <<68762, "M", <<68826>>>>, <<68763, "M", <<68827>>>>, <<68764, "M", <<68828>>>>,
        <<68765, "M", <<68829>>>>, <<68766, "M", <<68830>>>>, <<68767, "M", <<68831>>>>,
        <<68768, "M", <<68832>>>>, <<68769, "M", <<68833>>>>, <<68770, "M", <<68834>>>>,
        <<68771, "M", <<68835>>>>, <<68772, "M", <<68836>>>>, <<68773, "M", <<68837>>>>,
        <<68774, "M", <<68838>>>>, <<68775, "M", <<68839>>>>, <<68776, "M", <<68840>>>>,
        <<68777, "M", <<68841>>>>, <<68778, "M", <<68842>>>>, <<68779, "M", <<68843>>>>,
        <<68780, "M", <<68844>>>>, <<68781, "M", <<68845>>>>, <<68782, "M", <<68846>>>>,
        <<68783, "M", <<68847>>>>, <<68784, "M", <<68848>>>>, <<68785, "M", <<68849>>>>,
        <<68786, "M", <<68850>>>>, <<68787, "X">>, <<68800, "V">>, <<68851, "X">>,
        <<68858, "V">>, <<68904, "X">>, <<68912, "V">>, <<68922, "X">>, <<69216, "V">>,
        <<69247, "X">>, <<69248, "V">>, <<69290, "X">>, <<69291, "V">>, <<69294, "X">>,
        <<69296, "V">>, <<69298, "X">>, <<69373, "V">>, <<69416, "X">>, <<69424, "V">>,
        <<69466, "X">>, <<69488, "V">>, <<69514, "X">>, <<69552, "V">>, <<69580, "X">>,
        <<69600, "V">>, <<69623, "X">>, <<69632, "V">>, <<69710, "X">>, <<69714, "V">>,
        <<69750, "X">>, <<69759, "V">>, <<69821, "X">>, <<69822, "V">>, <<69827, "X">>,
        <<69840, "V">>, <<69865, "X">>, <<69872, "V">>, <<69882, "X">>, <<69888, "V">>,
        <<69941, "X">>, <<69942, "V">>, <<69960, "X">>, <<69968, "V">>, <<70007, "X">>,
        <<70016, "V">>, <<70112, "X">>, <<70113, "V">>, <<70133, "X">>, <<70144, "V">>,
        <<70162, "X">>, <<70163, "V">>, <<70210, "X">>, <<70272, "V">>, <<70279, "X">>,
        <<70280, "V">>, <<70281, "X">>, <<70282, "V">>, <<70286, "X">>, <<70287, "V">>,
        <<70302, "X">>, <<70303, "V">>, <<70314, "X">>, <<70320, "V">>, <<70379, "X">>,
        <<70384, "V">>, <<70394, "X">>, <<70400, "V">>, <<70404, "X">>, <<70405, "V">>,
        <<70413, "X">>, <<70415, "V">>, <<70417, "X">>, <<70419, "V">>, <<70441, "X">>,
        <<70442, "V">>, <<70449, "X">>, <<70450, "V">>, <<70452, "X">>, <<70453, "V">>,
        <<70458, "X">>, <<70459, "V">>, <<70469, "X">>, <<70471, "V">>, <<70473, "X">>,
        <<70475, "V">>, <<70478, "X">>, <<70480, "V">>, <<70481, "X">>, <<70487, "V">>,
        <<70488, "X">>, <<70493, "V">>, <<70500, "X">>, <<70502, "V">>, <<70509, "X">>,
        <<70512, "V">>, <<70517, "X">>, <<70656, "V">>, <<70748, "X">>, <<70749, "V">>,
        <<70754, "X">>, <<70784, "V">>, <<70856, "X">>, <<70864, "V">>, <<70874, "X">>,
        <<71040, "V">>, <<71094, "X">>, <<71096, "V">>, <<71134, "X">>, <<71168, "V">>,
        <<71237, "X">>, <<71248, "V">>, <<71258, "X">>, <<71264, "V">>, <<71277, "X">>,
        <<71296, "V">>, <<71354, "X">>, <<71360, "V">>, <<71370, "X">>, <<71424, "V">>,
        <<71451, "X">>, <<71453, "V">>, <<71468, "X">>, <<71472, "V">>, <<71495, "X">>,
        <<71680, "V">>, <<71740, "X">>, <<71840, "M", <<71872>>>>, <<71841, "M", <<71873>>>>,
        <<71842, "M", <<71874>>>>, <<71843, "M", <<71875>>>>, <<71844, "M", <<71876>>>>,
        <<71845, "M", <<71877>>>>, <<71846, "M", <<71878>>>>, <<71847, "M", <<71879>>>>,
        <<71848, "M", <<71880>>>>, <<71849, "M", <<71881>>>>, <<71850, "M", <<71882>>>>,
        <<71851, "M", <<71883>>>>, <<71852, "M", <<71884>>>>, <<71853, "M", <<71885>>>>,
        <<71854, "M", <<71886>>>>, <<71855, "M", <<71887>>>>, <<71856, "M", <<71888>>>>,
        <<71857, "M", <<71889>>>>, <<71858, "M", <<71890>>>>, <<71859, "M", <<71891>>>>,
        <<71860, "M", <<71892>>>>, <<71861, "M", <<71893>>>>, <<71862, "M", <<71894>>>>,
        <<71863, "M", <<71895>>>>, <<71864, "M", <<71896>>>>, <<71865, "M", <<71897>>>>,
        <<71866, "M", <<71898>>>>, <<71867, "M", <<71899>>>>, <<71868, "M", <<71900>>>>,
        <<71869, "M", <<71901>>>>, <<71870, "M", <<71902>>>>, <<71871, "M", <<71903>>>>,
        <<71872, "V">>, <<71923, "X">>, <<71935, "V">>, <<71943, "X">>, <<71945, "V">>,
        <<71946, "X">>, <<71948, "V">>, <<71956, "X">>, <<71957, "V">>, <<71959, "X">>,
        <<71960, "V">>, <<71990, "X">>, <<71991, "V">>, <<71993, "X">>, <<71995, "V">>,
        <<72007, "X">>, <<72016, "V">>, <<72026, "X">>, <<72096, "V">>, <<72104, "X">>,
        <<72106, "V">>, <<72152, "X">>, <<72154, "V">>, <<72165, "X">>, <<72192, "V">>,
        <<72264, "X">>, <<72272, "V">>, <<72355, "X">>, <<72368, "V">>, <<72441, "X">>,
        <<72448, "V">>, <<72458, "X">>, <<72704, "V">>, <<72713, "X">>, <<72714, "V">>,
        <<72759, "X">>, <<72760, "V">>, <<72774, "X">>, <<72784, "V">>, <<72813, "X">>,
        <<72816, "V">>, <<72848, "X">>, <<72850, "V">>, <<72872, "X">>, <<72873, "V">>,
        <<72887, "X">>, <<72960, "V">>, <<72967, "X">>, <<72968, "V">>, <<72970, "X">>,
        <<72971, "V">>, <<73015, "X">>, <<73018, "V">>, <<73019, "X">>, <<73020, "V">>,
        <<73022, "X">>, <<73023, "V">>, <<73032, "X">>, <<73040, "V">>, <<73050, "X">>,
        <<73056, "V">>, <<73062, "X">>, <<73063, "V">>, <<73065, "X">>, <<73066, "V">>,
        <<73103, "X">>, <<73104, "V">>, <<73106, "X">>, <<73107, "V">>, <<73113, "X">>,
        <<73120, "V">>, <<73130, "X">>, <<73440, "V">>, <<73465, "X">>, <<73472, "V">>,
        <<73489, "X">>, <<73490, "V">>, <<73531, "X">>, <<73534, "V">>, <<73562, "X">>,
        <<73648, "V">>, <<73649, "X">>, <<73664, "V">>, <<73714, "X">>, <<73727, "V">>,
        <<74650, "X">>, <<74752, "V">>, <<74863, "X">>, <<74864, "V">>, <<74869, "X">>,
        <<74880, "V">>, <<75076, "X">>, <<77712, "V">>, <<77811, "X">>, <<77824, "V">>,
        <<78896, "X">>, <<78912, "V">>, <<78934, "X">>, <<82944, "V">>, <<83527, "X">>,
        <<92160, "V">>, <<92729, "X">>, <<92736, "V">>, <<92767, "X">>, <<92768, "V">>,
        <<92778, "X">>, <<92782, "V">>, <<92863, "X">>, <<92864, "V">>, <<92874, "X">>,
        <<92880, "V">>, <<92910, "X">>, <<92912, "V">>, <<92918, "X">>, <<92928, "V">>,
        <<92998, "X">>, <<93008, "V">>, <<93018, "X">>, <<93019, "V">>, <<93026, "X">>,
        <<93027, "V">>, <<93048, "X">>, <<93053, "V">>, <<93072, "X">>,
        <<93760, "M", <<93792>>>>, <<93761, "M", <<93793>>>>, <<93762, "M", <<93794>>>>,
        <<93763, "M", <<93795>>>>, <<93764, "M", <<93796>>>>, <<93765, "M", <<93797>>>>,
        <<93766, "M", <<93798>>>>, <<93767, "M", <<93799>>>>, <<93768, "M", <<93800>>>>,
        <<93769, "M", <<93801>>>>, <<93770, "M", <<93802>>>>, <<93771, "M", <<93803>>>>,
        <<93772, "M", <<93804>>>>, <<93773, "M", <<93805>>>>, <<93774, "M", <<93806>>>>,
        <<93775, "M", <<93807>>>>, <<93776, "M", <<93808>>>>, <<93777, "M", <<93809>>>>,
        <<93778, "M", <<93810>>>>, <<93779, "M", <<93811>>>>, <<93780, "M", <<93812>>>>,
        <<93781, "M", <<93813>>>>, <<93782, "M", <<93814>>>>, <<93783, "M", <<93815>>>>,
        <<93784, "M", <<93816>>>>, <<93785, "M", <<93817>>>>, <<93786, "M", <<93818>>>>,
        <<93787, "M", <<93819>>>>, <<93788, "M", <<93820>>>>, <<93789, "M", <<93821>>>>,
        <<93790, "M", <<93822>>>>, <<93791, "M", <<93823>>>>, <<93792, "V">>, <<93851, "X">>,
        <<93952, "V">>, <<94027, "X">>, <<94031, "V">>, <<94088, "X">>, <<94095, "V">>,
        <<94112, "X">>, <<94176, "V">>, <<94181, "X">>, <<94192, "V">>, <<94194, "X">>,
        <<94208, "V">>, <<100344, "X">>, <<100352, "V">>, <<101590, "X">>, <<101632, "V">>,
        <<101641, "X">>, <<110576, "V">>, <<110580, "X">>, <<110581, "V">>, <<110588, "X">>,
        <<110589, "V">>, <<110591, "X">>, <<110592, "V">>, <<110883, "X">>, <<110898, "V">>,
        <<110899, "X">>, <<110928, "V">>, <<110931, "X">>, <<110933, "V">>, <<110934, "X">>,
        <<110948, "V">>, <<110952, "X">>, <<110960, "V">>, <<111356, "X">>, <<113664, "V">>,
        <<113771, "X">>, <<113776, "V">>, <<113789, "X">>, <<113792, "V">>, <<113801, "X">>,
        <<113808, "V">>, <<113818, "X">>, <<113820, "V">>, <<113824, "I">>, <<113828, "X">>,
        <<118528, "V">>, <<118574, "X">>, <<118576, "V">>, <<118599, "X">>, <<118608, "V">>,
        <<118724, "X">>, <<118784, "V">>, <<119030, "X">>, <<119040, "V">>, <<119079, "X">>,
        <<119081, "V">>, <<119134, "M", <<119127, 119141>>>>,
        <<119135, "M", <<119128, 119141>>>>, <<119136, "M", <<119128, 119141, 119150>>>>,
        <<119137, "M", <<119128, 119141, 119151>>>>,
        <<119138, "M", <<119128, 119141, 119152>>>>,
        <<119139, "M", <<119128, 119141, 119153>>>>,
        <<119140, "M", <<119128, 119141, 119154>>>>, <<119141, "V">>, <<119155, "X">>,
        <<119163, "V">>, <<119227, "M", <<119225, 119141>>>>,
        <<119228, "M", <<119226, 119141>>>>, <<119229, "M", <<119225, 119141, 119150>>>>,
        <<119230, "M", <<119226, 119141, 119150>>>>,
        <<119231, "M", <<119225, 119141, 119151>>>>,
        <<119232, "M", <<119226, 119141, 119151>>>>, <<119233, "V">>, <<119275, "X">>,
        <<119296, "V">>, <<119366, "X">>, <<119488, "V">>, <<119508, "X">>, <<119520, "V">>,
        <<119540, "X">>, <<119552, "V">>, <<119639, "X">>, <<119648, "V">>, <<119673, "X">>,
        <<119808, "M", <<97>>>>, <<119809, "M", <<98>>>>, <<119810, "M", <<99>>>>,
        <<119811, "M", <<100>>>>, <<119812, "M", <<101>>>>, <<119813, "M", <<102>>>>,
        <<119814, "M", <<103>>>>, <<119815, "M", <<104>>>>, <<119816, "M", <<105>>>>,
        <<119817, "M", <<106>>>>, <<119818, "M", <<107>>>>, <<119819, "M", <<108>>>>,
        <<119820, "M", <<109>>>>, <<119821, "M", <<110>>>>, <<119822, "M", <<111>>>>,
        <<119823, "M", <<112>>>>, <<119824, "M", <<113>>>>, <<119825, "M", <<114>>>>,
        <<119826, "M", <<115>>>>, <<119827, "M", <<116>>>>, <<119828, "M", <<117>>>>,
        <<119829, "M", <<118>>>>, <<119830, "M", <<119>>>>, <<119831, "M", <<120>>>>,
        <<119832, "M", <<121>>>>, <<119833, "M", <<122>>>>, <<119834, "M", <<97>>>>,
        <<119835, "M", <<98>>>>, <<119836, "M", <<99>>>>, <<119837, "M", <<100>>>>,
        <<119838, "M", <<101>>>>, <<119839, "M", <<102>>>>, <<119840, "M", <<103>>>>,
        <<119841, "M", <<104>>>>, <<119842, "M", <<105>>>>, <<119843, "M", <<106>>>>,
        <<119844, "M", <<107>>>>, <<119845, "M", <<108>>>>, <<119846, "M", <<109>>>>,
        <<119847, "M", <<110>>>>, <<119848, "M", <<111>>>>, <<119849, "M", <<112>>>>,
        <<119850, "M", <<113>>>>, <<119851, "M", <<114>>>>, <<119852, "M", <<115>>>>,
        <<119853, "M", <<116>>>>, <<119854, "M", <<117>>>>, <<119855, "M", <<118>>>>,
        <<119856, "M", <<119>>>>, <<119857, "M", <<120>>>>, <<119858, "M", <<121>>>>,
        <<119859, "M", <<122>>>>, <<119860, "M", <<97>>>>, <<119861, "M", <<98>>>>,
        <<119862, "M", <<99>>>>, <<119863, "M", <<100>>>>, <<119864, "M", <<101>>>>,
        <<119865, "M", <<102>>>>, <<119866, "M", <<103>>>>, <<119867, "M", <<104>>>>,
        <<119868, "M", <<105>>>>, <<119869, "M", <<106>>>>, <<119870, "M", <<107>>>>,
        <<119871, "M", <<108>>>>, <<119872, "M", <<109>>>>, <<119873, "M", <<110>>>>,
        <<119874, "M", <<111>>>>, <<119875, "M", <<112>>>>, <<119876, "M", <<113>>>>,
        <<119877, "M", <<114>>>>, <<119878, "M", <<115>>>>, <<119879, "M", <<116>>>>,
        <<119880, "M", <<117>>>>, <<119881, "M", <<118>>>>, <<119882, "M", <<119>>>>,
        <<119883, "M", <<120>>>>, <<119884, "M", <<121>>>>, <<119885, "M", <<122>>>>,
        <<119886, "M", <<97>>>>, <<119887, "M", <<98>>>>, <<119888, "M", <<99>>>>,
        <<119889, "M", <<100>>>>, <<119890, "M", <<101>>>>, <<119891, "M", <<102>>>>,
        <<119892, "M", <<103>>>>, <<119893, "X">>, <<119894, "M", <<105>>>>,
        <<119895, "M", <<106>>>>, <<119896, "M", <<107>>>>, <<119897, "M", <<108>>>>,
        <<119898, "M", <<109>>>>, <<119899, "M", <<110>>>>, <<119900, "M", <<111>>>>,
        <<119901, "M", <<112>>>>, <<119902, "M", <<113>>>>, <<119903, "M", <<114>>>>,
        <<119904, "M", <<115>>>>, <<119905, "M", <<116>>>>, <<119906, "M", <<117>>>>,
        <<119907, "M", <<118>>>>, <<119908, "M", <<119>>>>, <<119909, "M", <<120>>>>,
        <<119910, "M", <<121>>>>, <<119911, "M", <<122>>>>, <<119912, "M", <<97>>>>,
        <<119913, "M", <<98>>>>, <<119914, "M", <<99>>>>, <<119915, "M", <<100>>>>,
        <<119916, "M", <<101>>>>, <<119917, "M", <<102>>>>, <<119918, "M", <<103>>>>,
        <<119919, "M", <<104>>>>, <<119920, "M", <<105>>>>, <<119921, "M", <<106>>>>,
        <<119922, "M", <<107>>>>, <<119923, "M", <<108>>>>, <<119924, "M", <<109>>>>,
        <<119925, "M", <<110>>>>, <<119926, "M", <<111>>>>, <<119927, "M", <<112>>>>,
        <<119928, "M", <<113>>>>, <<119929, "M", <<114>>>>, <<119930, "M", <<115>>>>,
        <<119931, "M", <<116>>>>, <<119932, "M", <<117>>>>, <<119933, "M", <<118>>>>,
        <<119934, "M", <<119>>>>, <<119935, "M", <<120>>>>, <<119936, "M", <<121>>>>,
        <<119937, "M", <<122>>>>, <<119938, "M", <<97>>>>, <<119939, "M", <<98>>>>,
        <<119940, "M", <<99>>>>, <<119941, "M", <<100>>>>, <<119942, "M", <<101>>>>,
        <<119943, "M", <<102>>>>, <<119944, "M", <<103>>>>, <<119945, "M", <<104>>>>,
        <<119946, "M", <<105>>>>, <<119947, "M", <<106>>>>, <<119948, "M", <<107>>>>,
        <<119949, "M", <<108>>>>, <<119950, "M", <<109>>>>, <<119951, "M", <<110>>>>,
        <<119952, "M", <<111>>>>, <<119953, "M", <<112>>>>, <<119954, "M", <<113>>>>,
        <<119955, "M", <<114>>>>, <<119956, "M", <<115>>>>, <<119957, "M", <<116>>>>,
        <<119958, "M", <<117>>>>, <<119959, "M", <<118>>>>, <<119960, "M", <<119>>>>,
        <<119961, "M", <<120>>>>, <<119962, "M", <<121>>>>, <<119963, "M", <<122>>>>,
        <<119964, "M", <<97>>>>, <<119965, "X">>, <<119966, "M", <<99>>>>,
        <<119967, "M", <<100>>>>, <<119968, "X">>, <<119970, "M", <<103>>>>, <<119971, "X">>,
        <<119973, "M", <<106>>>>, <<119974, "M", <<107>>>>, <<119975, "X">>,
        <<119977, "M", <<110>>>>, <<119978, "M", <<111>>>>, <<119979, "M", <<112>>>>,
        <<119980, "M", <<113>>>>, <<119981, "X">>, <<119982, "M", <<115>>>>,
        <<119983, "M", <<116>>>>, <<119984, "M", <<117>>>>, <<119985, "M", <<118>>>>,
        <<119986, "M", <<119>>>>, <<119987, "M", <<120>>>>, <<119988, "M", <<121>>>>,
        <<119989, "M", <<122>>>>, <<119990, "M", <<97>>>>, <<119991, "M", <<98>>>>,
        <<119992, "M", <<99>>>>, <<119993, "M", <<100>>>>, <<119994, "X">>,
        <<119995, "M", <<102>>>>, <<119996, "X">>, <<119997, "M", <<104>>>>,
        <<119998, "M", <<105>>>>, <<119999, "M", <<106>>>>, <<120000, "M", <<107>>>>,
        <<120001, "M", <<108>>>>, <<120002, "M", <<109>>>>, <<120003, "M", <<110>>>>,
        <<120004, "X">>, <<120005, "M", <<112>>>>, <<120006, "M", <<113>>>>,
        <<120007, "M", <<114>>>>, <<120008, "M", <<115>>>>, <<120009, "M", <<116>>>>,
        <<120010, "M", <<117>>>>, <<120011, "M", <<118>>>>, <<120012, "M", <<119>>>>,
        <<120013, "M", <<120>>>>, <<120014, "M", <<121>>>>, <<120015, "M", <<122>>>>,
        <<120016, "M", <<97>>>>, <<120017, "M", <<98>>>>, <<120018, "M", <<99>>>>,
        <<120019, "M", <<100>>>>, <<120020, "M", <<101>>>>, <<120021, "M", <<102>>>>,
        <<120022, "M", <<103>>>>, <<120023, "M", <<104>>>>, <<120024, "M", <<105>>>>,
        <<120025, "M", <<106>>>>, <<120026, "M", <<107>>>>, <<120027, "M", <<108>>>>,
        <<120028, "M", <<109>>>>, <<120029, "M", <<110>>>>, <<120030, "M", <<111>>>>,
        <<120031, "M", <<112>>>>, <<120032, "M", <<113>>>>, <<120033, "M", <<114>>>>,
        <<120034, "M", <<115>>>>, <<120035, "M", <<116>>>>, <<120036, "M", <<117>>>>,
        <<120037, "M", <<118>>>>, <<120038, "M", <<119>>>>, <<120039, "M", <<120>>>>,
        <<120040, "M", <<121>>>>, <<120041, "M", <<122>>>>, <<120042, "M", <<97>>>>,
        <<120043, "M", <<98>>>>, <<120044, "M", <<99>>>>, <<120045, "M", <<100>>>>,
        <<120046, "M", <<101>>>>, <<120047, "M", <<102>>>>, <<120048, "M", <<103>>>>,
        <<120049, "M", <<104>>>>, <<120050, "M", <<105>>>>, <<120051, "M", <<106>>>>,
        <<120052, "M", <<107>>>>, <<120053, "M", <<108>>>>, <<120054, "M", <<109>>>>,
        <<120055, "M", <<110>>>>, <<120056, "M", <<111>>>>, <<120057, "M", <<112>>>>,
        <<120058, "M", <<113>>>>, <<120059, "M", <<114>>>>, <<120060, "M", <<115>>>>,
        <<120061, "M", <<116>>>>, <<120062, "M", <<117>>>>, <<120063, "M", <<118>>>>,
        <<120064, "M", <<119>>>>, <<120065, "M", <<120>>>>, <<120066, "M", <<121>>>>,
        <<120067, "M", <<122>>>>, <<120068, "M", <<97>>>>, <<120069, "M", <<98>>>>,
        <<120070, "X">>, <<120071, "M", <<100>>>>, <<120072, "M", <<101>>>>,
        <<120073, "M", <<102>>>>, <<120074, "M", <<103>>>>, <<120075, "X">>,
        <<120077, "M", <<106>>>>, <<120078, "M", <<107>>>>, <<120079, "M", <<108>>>>,
        <<120080, "M", <<109>>>>, <<120081, "M", <<110>>>>, <<120082, "M", <<111>>>>,
        <<120083, "M", <<112>>>>, <<120084, "M", <<113>>>>, <<120085, "X">>,
        <<120086, "M", <<115>>>>, <<120087, "M", <<116>>>>, <<120088, "M", <<117>>>>,
        <<120089, "M", <<118>>>>, <<120090, "M", <<119>>>>, <<120091, "M", <<120>>>>,
        <<120092, "M", <<121>>>>, <<120093, "X">>, <<120094, "M", <<97>>>>,
        <<120095, "M", <<98>>>>, <<120096, "M", <<99>>>>, <<120097, "M", <<100>>>>,
        <<120098, "M", <<101>>>>, <<120099, "M", <<102>>>>, <<120100, "M", <<103>>>>,
        <<120101, "M", <<104>>>>, <<120102, "M", <<105>>>>, <<120103, "M", <<106>>>>,
        <<120104, "M", <<107>>>>, <<120105, "M", <<108>>>>, <<120106, "M", <<109>>>>,
        <<120107, "M", <<110>>>>, <<120108, "M", <<111>>>>, <<120109, "M", <<112>>>>,
        <<120110, "M", <<113>>>>, <<120111, "M", <<114>>>>, <<120112, "M", <<115>>>>,
        <<120113, "M", <<116>>>>, <<120114, "M", <<117>>>>, <<120115, "M", <<118>>>>,
        <<120116, "M", <<119>>>>, <<120117, "M", <<120>>>>, <<120118, "M", <<121>>>>,
        <<120119, "M", <<122>>>>, <<120120, "M", <<97>>>>, <<120121, "M", <<98>>>>,
        <<120122, "X">>, <<120123, "M", <<100>>>>, <<120124, "M", <<101>>>>,
        <<120125, "M", <<102>>>>, <<120126, "M", <<103>>>>, <<120127, "X">>,
        <<120128, "M", <<105>>>>, <<120129, "M", <<106>>>>, <<120130, "M", <<107>>>>,
        <<120131, "M", <<108>>>>, <<120132, "M", <<109>>>>, <<120133, "X">>,
        <<120134, "M", <<111>>>>, <<120135, "X">>, <<120138, "M", <<115>>>>,
        <<120139, "M", <<116>>>>, <<120140, "M", <<117>>>>, <<120141, "M", <<118>>>>,
        <<120142, "M", <<119>>>>, <<120143, "M", <<120>>>>, <<120144, "M", <<121>>>>,
        <<120145, "X">>, <<120146, "M", <<97>>>>, <<120147, "M", <<98>>>>,
        <<120148, "M", <<99>>>>, <<120149, "M", <<100>>>>, <<120150, "M", <<101>>>>,
        <<120151, "M", <<102>>>>, <<120152, "M", <<103>>>>, <<120153, "M", <<104>>>>,
        <<120154, "M", <<105>>>>, <<120155, "M", <<106>>>>, <<120156, "M", <<107>>>>,
        <<120157, "M", <<108>>>>, <<120158, "M", <<109>>>>, <<120159, "M", <<110>>>>,
        <<120160, "M", <<111>>>>, <<120161, "M", <<112>>>>, <<120162, "M", <<113>>>>,
        <<120163, "M", <<114>>>>, <<120164, "M", <<115>>>>, <<120165, "M", <<116>>>>,
        <<120166, "M", <<117>>>>, <<120167, "M", <<118>>>>, <<120168, "M", <<119>>>>,
        <<120169, "M", <<120>>>>, <<120170, "M", <<121>>>>, <<120171, "M", <<122>>>>,
        <<120172, "M", <<97>>>>, <<120173, "M", <<98>>>>, <<120174, "M", <<99>>>>,
        <<120175, "M", <<100>>>>, <<120176, "M", <<101>>>>, <<120177, "M", <<102>>>>,
        <<120178, "M", <<103>>>>, <<120179, "M", <<104>>>>, <<120180, "M", <<105>>>>,
        <<120181, "M", <<106>>>>, <<120182, "M", <<107>>>>, <<120183, "M", <<108>>>>,
        <<120184, "M", <<109>>>>, <<120185, "M", <<110>>>>, <<120186, "M", <<111>>>>,
        <<120187, "M", <<112>>>>, <<120188, "M", <<113>>>>, <<120189, "M", <<114>>>>,
        <<120190, "M", <<115>>>>, <<120191, "M", <<116>>>>, <<120192, "M", <<117>>>>,
        <<120193, "M", <<118>>>>, <<120194, "M", <<119>>>>, <<120195, "M", <<120>>>>,
        <<120196, "M", <<121>>>>, <<120197, "M", <<122>>>>, <<120198, "M", <<97>>>>,
        <<120199, "M", <<98>>>>, <<120200, "M", <<99>>>>, <<120201, "M", <<100>>>>,
        <<120202, "M", <<101>>>>, <<120203, "M", <<102>>>>, <<120204, "M", <<103>>>>,
        <<120205, "M", <<104>>>>, <<120206, "M", <<105>>>>, <<120207, "M", <<106>>>>,
        <<120208, "M", <<107>>>>, <<120209, "M", <<108>>>>, <<120210, "M", <<109>>>>,
        <<120211, "M", <<110>>>>, <<120212, "M", <<111>>>>, <<120213, "M", <<112>>>>,
        <<120214, "M", <<113>>>>, <<120215, "M", <<114>>>>, <<120216, "M", <<115>>>>,
        <<120217, "M", <<116>>>>, <<120218, "M", <<117>>>>, <<120219, "M", <<118>>>>,
        <<120220, "M", <<119>>>>, <<120221, "M", <<120>>>>, <<120222, "M", <<121>>>>,
        <<120223, "M", <<122>>>>, <<120224, "M", <<97>>>>, <<120225, "M", <<98>>>>,
        <<120226, "M", <<99>>>>, <<120227, "M", <<100>>>>, <<120228, "M", <<101>>>>,
        <<120229, "M", <<102>>>>, <<120230, "M", <<103>>>>, <<120231, "M", <<104>>>>,
        <<120232, "M", <<105>>>>, <<120233, "M", <<106>>>>, <<120234, "M", <<107>>>>,
        <<120235, "M", <<108>>>>, <<120236, "M", <<109>>>>, <<120237, "M", <<110>>>>,
        <<120238, "M", <<111>>>>, <<120239, "M", <<112>>>>, <<120240, "M", <<113>>>>,
        <<120241, "M", <<114>>>>, <<120242, "M", <<115>>>>, <<120243, "M", <<116>>>>,
        <<120244, "M", <<117>>>>, <<120245, "M", <<118>>>>, <<120246, "M", <<119>>>>,
        <<120247, "M", <<120>>>>, <<120248, "M", <<121>>>>, <<120249, "M", <<122>>>>,
        <<120250, "M", <<97>>>>, <<120251, "M", <<98>>>>, <<120252, "M", <<99>>>>,
        <<120253, "M", <<100>>>>, <<120254, "M", <<101>>>>, <<120255, "M", <<102>>>>,
        <<120256, "M", <<103>>>>, <<120257, "M", <<104>>>>, <<120258, "M", <<105>>>>,
        <<120259, "M", <<106>>>>, <<120260, "M", <<107>>>>, <<120261, "M", <<108>>>>,
        <<120262, "M", <<109>>>>, <<120263, "M", <<110>>>>, <<120264, "M", <<111>>>>,
        <<120265, "M", <<112>>>>, <<120266, "M", <<113>>>>, <<120267, "M", <<114>>>>,
        <<120268, "M", <<115>>>>, <<120269, "M", <<116>>>>, <<120270, "M", <<117>>>>,
        <<120271, "M", <<118>>>>, <<120272, "M", <<119>>>>, <<120273, "M", <<120>>>>,
        <<120274, "M", <<121>>>>, <<120275, "M", <<122>>>>, <<120276, "M", <<97>>>>,
        <<120277, "M", <<98>>>>, <<120278, "M", <<99>>>>, <<120279, "M", <<100>>>>,
        <<120280, "M", <<101>>>>, <<120281, "M", <<102>>>>, <<120282, "M", <<103>>>>,
        <<120283, "M", <<104>>>>, <<120284, "M", <<105>>>>, <<120285, "M", <<106>>>>,
        <<120286, "M", <<107>>>>, <<120287, "M", <<108>>>>, <<120288, "M", <<109>>>>,
        <<120289, "M", <<110>>>>, <<120290, "M", <<111>>>>, <<120291, "M", <<112>>>>,
        <<120292, "M", <<113>>>>, <<120293, "M", <<114>>>>, <<120294, "M", <<115>>>>,
        <<120295, "M", <<116>>>>, <<120296, "M", <<117>>>>, <<120297, "M", <<118>>>>,
        <<120298, "M", <<119>>>>, <<120299, "M", <<120>>>>, <<120300, "M", <<121>>>>,
        <<120301, "M", <<122>>>>, <<120302, "M", <<97>>>>, <<120303, "M", <<98>>>>,
        <<120304, "M", <<99>>>>, <<120305, "M", <<100>>>>, <<120306, "M", <<101>>>>,
        <<120307, "M", <<102>>>>, <<120308, "M", <<103>>>>, <<120309, "M", <<104>>>>,
        <<120310, "M", <<105>>>>, <<120311, "M", <<106>>>>, <<120312, "M", <<107>>>>,
        <<120313, "M", <<108>>>>, <<120314, "M", <<109>>>>, <<120315, "M", <<110>>>>,
        <<120316, "M", <<111>>>>, <<120317, "M", <<112>>>>, <<120318, "M", <<113>>>>,
        <<120319, "M", <<114>>>>, <<120320, "M", <<115>>>>, <<120321, "M", <<116>>>>,
        <<120322, "M", <<117>>>>, <<120323, "M", <<118>>>>, <<120324, "M", <<119>>>>,
        <<120325, "M", <<120>>>>, <<120326, "M", <<121>>>>, <<120327, "M", <<122>>>>,
        <<120328, "M", <<97>>>>, <<120329, "M", <<98>>>>, <<120330, "M", <<99>>>>,
        <<120331, "M", <<100>>>>, <<120332, "M", <<101>>>>, <<120333, "M", <<102>>>>,
        <<120334, "M", <<103>>>>, <<120335, "M", <<104>>>>, <<120336, "M", <<105>>>>,
        <<120337, "M", <<106>>>>, <<120338, "M", <<107>>>>, <<120339, "M", <<108>>>>,
        <<120340, "M", <<109>>>>, <<120341, "M", <<110>>>>, <<120342, "M", <<111>>>>,
        <<120343, "M", <<112>>>>, <<120344, "M", <<113>>>>, <<120345, "M", <<114>>>>,
        <<120346, "M", <<115>>>>, <<120347, "M", <<116>>>>, <<120348, "M", <<117>>>>,
        <<120349, "M", <<118>>>>, <<120350, "M", <<119>>>>, <<120351, "M", <<120>>>>,
        <<120352, "M", <<121>>>>, <<120353, "M", <<122>>>>, <<120354, "M", <<97>>>>,
        <<120355, "M", <<98>>>>, <<120356, "M", <<99>>>>, <<120357, "M", <<100>>>>,
        <<120358, "M", <<101>>>>, <<120359, "M", <<102>>>>, <<120360, "M", <<103>>>>,
        <<120361, "M", <<104>>>>, <<120362, "M", <<105>>>>, <<120363, "M", <<106>>>>,
        <<120364, "M", <<107>>>>, <<120365, "M", <<108>>>>, <<120366, "M", <<109>>>>,
        <<120367, "M", <<110>>>>, <<120368, "M", <<111>>>>, <<120369, "M", <<112>>>>,
        <<120370, "M", <<113>>>>, <<120371, "M", <<114>>>>, <<120372, "M", <<115>>>>,
        <<120373, "M", <<116>>>>, <<120374, "M", <<117>>>>, <<120375, "M", <<118>>>>,
        <<120376, "M", <<119>>>>, <<120377, "M", <<120>>>>, <<120378, "M", <<121>>>>,
        <<120379, "M", <<122>>>>, <<120380, "M", <<97>>>>, <<120381, "M", <<98>>>>,
        <<120382, "M", <<99>>>>, <<120383, "M", <<100>>>>, <<120384, "M", <<101>>>>,
        <<120385, "M", <<102>>>>, <<120386, "M", <<103>>>>, <<120387, "M", <<104>>>>,
        <<120388, "M", <<105>>>>, <<120389, "M", <<106>>>>, <<120390, "M", <<107>>>>,
        <<120391, "M", <<108>>>>, <<120392, "M", <<109>>>>, <<120393, "M", <<110>>>>,
        <<120394, "M", <<111>>>>, <<120395, "M", <<112>>>>, <<120396, "M", <<113>>>>,
        <<120397, "M", <<114>>>>, <<120398, "M", <<115>>>>, <<120399, "M", <<116>>>>,
        <<120400, "M", <<117>>>>, <<120401, "M", <<118>>>>, <<120402, "M", <<119>>>>,
        <<120403, "M", <<120>>>>, <<120404, "M", <<121>>>>, <<120405, "M", <<122>>>>,
        <<120406, "M", <<97>>>>, <<120407, "M", <<98>>>>, <<120408, "M", <<99>>>>,
        <<120409, "M", <<100>>>>, <<120410, "M", <<101>>>>, <<120411, "M", <<102>>>>,
        <<120412, "M", <<103>>>>, <<120413, "M", <<104>>>>, <<120414, "M", <<105>>>>,
        <<120415, "M", <<106>>>>, <<120416, "M", <<107>>>>, <<120417, "M", <<108>>>>,
        <<120418, "M", <<109>>>>, <<120419, "M", <<110>>>>, <<120420, "M", <<111>>>>,
        <<120421, "M", <<112>>>>, <<120422, "M", <<113>>>>, <<120423, "M", <<114>>>>,
        <<120424, "M", <<115>>>>, <<120425, "M", <<116>>>>, <<120426, "M", <<117>>>>,
        <<120427, "M", <<118>>>>, <<120428, "M", <<119>>>>, <<120429, "M", <<120>>>>,
        <<120430, "M", <<121>>>>, <<120431, "M", <<122>>>>, <<120432, "M", <<97>>>>,
        <<120433, "M", <<98>>>>, <<120434, "M", <<99>>>>, <<120435, "M", <<100>>>>,
        <<120436, "M", <<101>>>>, <<120437, "M", <<102>>>>, <<120438, "M", <<103>>>>,
        <<120439, "M", <<104>>>>, <<120440, "M", <<105>>>>, <<120441, "M", <<106>>>>,
        <<120442, "M", <<107>>>>, <<120443, "M", <<108>>>>, <<120444, "M", <<109>>>>,
        <<120445, "M", <<110>>>>, <<120446, "M", <<111>>>>, <<120447, "M", <<112>>>>,
        <<120448, "M", <<113>>>>, <<120449, "M", <<114>>>>, <<120450, "M", <<115>>>>,
        <<120451, "M", <<116>>>>, <<120452, "M", <<117>>>>, <<120453, "M", <<118>>>>,
        <<120454, "M", <<119>>>>, <<120455, "M", <<120>>>>, <<120456, "M", <<121>>>>,
        <<120457, "M", <<122>>>>, <<120458, "M", <<97>>>>, <<120459, "M", <<98>>>>,
        <<120460, "M", <<99>>>>, <<120461, "M", <<100>>>>, <<120462, "M", <<101>>>>,
        <<120463, "M", <<102>>>>, <<120464, "M", <<103>>>>, <<120465, "M", <<104>>>>,
        <<120466, "M", <<105>>>>, <<120467, "M", <<106>>>>, <<120468, "M", <<107>>>>,
        <<120469, "M", <<108>>>>, <<120470, "M", <<109>>>>, <<120471, "M", <<110>>>>,
        <<120472, "M", <<111>>>>, <<120473, "M", <<112>>>>, <<120474, "M", <<113>>>>,
        <<120475, "M", <<114>>>>, <<120476, "M", <<115>>>>, <<120477, "M", <<116>>>>,
        <<120478, "M", <<117>>>>, <<120479, "M", <<118>>>>, <<120480, "M", <<119>>>>,
        <<120481, "M", <<120>>>>, <<120482, "M", <<121>>>>, <<120483, "M", <<122>>>>,
        <<120484, "M", <<305>>>>, <<120485, "M", <<567>>>>, <<120486, "X">>,
        <<120488, "M", <<945>>>>, <<120489, "M", <<946>>>>, <<120490, "M", <<947>>>>,
        <<120491, "M", <<948>>>>, <<120492, "M", <<949>>>>, <<120493, "M", <<950>>>>,
        <<120494, "M", <<951>>>>, <<120495, "M", <<952>>>>, <<120496, "M", <<953>>>>,
        <<120497, "M", <<954>>>>, <<120498, "M", <<955>>>>, <<120499, "M", <<956>>>>,
        <<120500, "M", <<957>>>>, <<120501, "M", <<958>>>>, <<120502, "M", <<959>>>>,
        <<120503, "M", <<960>>>>, <<120504, "M", <<961>>>>, <<120505, "M", <<952>>>>,
        <<120506, "M", <<963>>>>, <<120507, "M", <<964>>>>, <<120508, "M", <<965>>>>,
        <<120509, "M", <<966>>>>, <<120510, "M", <<967>>>>, <<120511, "M", <<968>>>>,
        <<120512, "M", <<969>>>>, <<120513, "M", <<8711>>>>, <<120514, "M", <<945>>>>,
        <<120515, "M", <<946>>>>, <<120516, "M", <<947>>>>, <<120517, "M", <<948>>>>,
        <<120518, "M", <<949>>>>, <<120519, "M", <<950>>>>, <<120520, "M", <<951>>>>,
        <<120521, "M", <<952>>>>, <<120522, "M", <<953>>>>, <<120523, "M", <<954>>>>,
        <<120524, "M", <<955>>>>, <<120525, "M", <<956>>>>, <<120526, "M", <<957>>>>,
        <<120527, "M", <<958>>>>, <<120528, "M", <<959>>>>, <<120529, "M", <<960>>>>,
        <<120530, "M", <<961>>>>, <<120531, "M", <<963>>>>, <<120533, "M", <<964>>>>,
        <<120534, "M", <<965>>>>, <<120535, "M", <<966>>>>, <<120536, "M", <<967>>>>,
        <<120537, "M", <<968>>>>, <<120538, "M", <<969>>>>, <<120539, "M", <<8706>>>>,
        <<120540, "M", <<949>>>>, <<120541, "M", <<952>>>>, <<120542, "M", <<954>>>>,
        <<120543, "M", <<966>>>>, <<120544, "M", <<961>>>>, <<120545, "M", <<960>>>>,
        <<120546, "M", <<945>>>>, <<120547, "M", <<946>>>>, <<120548, "M", <<947>>>>,
        <<120549, "M", <<948>>>>, <<120550, "M", <<949>>>>, <<120551, "M", <<950>>>>,
        <<120552, "M", <<951>>>>, <<120553, "M", <<952>>>>, <<120554, "M", <<953>>>>,
        <<120555, "M", <<954>>>>, <<120556, "M", <<955>>>>, <<120557, "M", <<956>>>>,
        <<120558, "M", <<957>>>>, <<120559, "M", <<958>>>>, <<120560, "M", <<959>>>>,
        <<120561, "M", <<960>>>>, <<120562, "M", <<961>>>>, <<120563, "M", <<952>>>>,
        <<120564, "M", <<963>>>>, <<120565, "M", <<964>>>>, <<120566, "M", <<965>>>>,
        <<120567, "M", <<966>>>>, <<120568, "M", <<967>>>>, <<120569, "M", <<968>>>>,
        <<120570, "M", <<969>>>>, <<120571, "M", <<8711>>>>, <<120572, "M", <<945>>>>,
        <<120573, "M", <<946>>>>, <<120574, "M", <<947>>>>, <<120575, "M", <<948>>>>,
        <<120576, "M", <<949>>>>, <<120577, "M", <<950>>>>, <<120578, "M", <<951>>>>,
        <<120579, "M", <<952>>>>, <<120580, "M", <<953>>>>, <<120581, "M", <<954>>>>,
        <<120582, "M", <<955>>>>, <<120583, "M", <<956>>>>, <<120584, "M", <<957>>>>,
        <<120585, "M", <<958>>>>, <<120586, "M", <<959>>>>, <<120587, "M", <<960>>>>,
        <<120588, "M", <<961>>>>, <<120589, "M", <<963>>>>, <<120591, "M", <<964>>>>,
        <<120592, "M", <<965>>>>, <<120593, "M", <<966>>>>, <<120594, "M", <<967>>>>,
        <<120595, "M", <<968>>>>, <<120596, "M", <<969>>>>, <<120597, "M", <<8706>>>>,
        <<120598, "M", <<949>>>>, <<120599, "M", <<952>>>>, <<120600, "M", <<954>>>>,
        <<120601, "M", <<966>>>>, <<120602, "M", <<961>>>>, <<120603, "M", <<960>>>>,
        <<120604, "M", <<945>>>>, <<120605, "M", <<946>>>>, <<120606, "M", <<947>>>>,
        <<120607, "M", <<948>>>>, <<120608, "M", <<949>>>>, <<120609, "M", <<950>>>>,
        <<120610, "M", <<951>>>>, <<120611, "M", <<952>>>>, <<120612, "M", <<953>>>>,
        <<120613, "M", <<954>>>>, <<120614, "M", <<955>>>>, <<120615, "M", <<956>>>>,
        <<120616, "M", <<957>>>>, <<120617, "M", <<958>>>>, <<120618, "M", <<959>>>>,
        <<120619, "M", <<960>>>>, <<120620, "M", <<961>>>>, <<120621, "M", <<952>>>>,
        <<120622, "M", <<963>>>>, <<120623, "M", <<964>>>>, <<120624, "M", <<965>>>>,
        <<120625, "M", <<966>>>>, <<120626, "M", <<967>>>>, <<120627, "M", <<968>>>>,
        <<120628, "M", <<969>>>>, <<120629, "M", <<8711>>>>, <<120630, "M", <<945>>>>,
        <<120631, "M", <<946>>>>, <<120632, "M", <<947>>>>, <<120633, "M", <<948>>>>,
        <<120634, "M", <<949>>>>, <<120635, "M", <<950>>>>, <<120636, "M", <<951>>>>,
        <<120637, "M", <<952>>>>, <<120638, "M", <<953>>>>, <<120639, "M", <<954>>>>,
        <<120640, "M", <<955>>>>, <<120641, "M", <<956>>>>, <<120642, "M", <<957>>>>,
        <<120643, "M", <<958>>>>, <<120644, "M", <<959>>>>, <<120645, "M", <<960>>>>,
        <<120646, "M", <<961>>>>, <<120647, "M", <<963>>>>, <<120649, "M", <<964>>>>,
        <<120650, "M", <<965>>>>, <<120651, "M", <<966>>>>, <<120652, "M", <<967>>>>,
        <<120653, "M", <<968>>>>, <<120654, "M", <<969>>>>, <<120655, "M", <<8706>>>>,
        <<120656, "M", <<949>>>>, <<120657, "M", <<952>>>>, <<120658, "M", <<954>>>>,
        <<120659, "M", <<966>>>>, <<120660, "M", <<961>>>>, <<120661, "M", <<960>>>>,
        <<120662, "M", <<945>>>>, <<120663, "M", <<946>>>>, <<120664, "M", <<947>>>>,
        <<120665, "M", <<948>>>>, <<120666, "M", <<949>>>>, <<120667, "M", <<950>>>>,
        <<120668, "M", <<951>>>>, <<120669, "M", <<952>>>>, <<120670, "M", <<953>>>>,
        <<120671, "M", <<954>>>>, <<120672, "M", <<955>>>>, <<120673, "M", <<956>>>>,
        <<120674, "M", <<957>>>>, <<120675, "M", <<958>>>>, <<120676, "M", <<959>>>>,
        <<120677, "M", <<960>>>>, <<120678, "M", <<961>>>>, <<120679, "M", <<952>>>>,
        <<120680, "M", <<963>>>>, <<120681, "M", <<964>>>>, <<120682, "M", <<965>>>>,
        <<120683, "M", <<966>>>>, <<120684, "M", <<967>>>>, <<120685, "M", <<968>>>>,
        <<120686, "M", <<969>>>>, <<120687, "M", <<8711>>>>, <<120688, "M", <<945>>>>,
        <<120689, "M", <<946>>>>, <<120690, "M", <<947>>>>, <<120691, "M", <<948>>>>,
        <<120692, "M", <<949>>>>, <<120693, "M", <<950>>>>, <<120694, "M", <<951>>>>,
        <<120695, "M", <<952>>>>, <<120696, "M", <<953>>>>, <<120697, "M", <<954>>>>,
        <<120698, "M", <<955>>>>, <<120699, "M", <<956>>>>, <<120700, "M", <<957>>>>,
        <<120701, "M", <<958>>>>, <<120702, "M", <<959>>>>, <<120703, "M", <<960>>>>,
        <<120704, "M", <<961>>>>, <<120705, "M", <<963>>>>, <<120707, "M", <<964>>>>,
        <<120708, "M", <<965>>>>, <<120709, "M", <<966>>>>, <<120710, "M", <<967>>>>,
        <<120711, "M", <<968>>>>, <<120712, "M", <<969>>>>, <<120713, "M", <<8706>>>>,
        <<120714, "M", <<949>>>>, <<120715, "M", <<952>>>>, <<120716, "M", <<954>>>>,
        <<120717, "M", <<966>>>>, <<120718, "M", <<961>>>>, <<120719, "M", <<960>>>>,
        <<120720, "M", <<945>>>>, <<120721, "M", <<946>>>>, <<120722, "M", <<947>>>>,
        <<120723, "M", <<948>>>>, <<120724, "M", <<949>>>>, <<120725, "M", <<950>>>>,
        <<120726, "M", <<951>>>>, <<120727, "M", <<952>>>>, <<120728, "M", <<953>>>>,
        <<120729, "M", <<954>>>>, <<120730, "M", <<955>>>>, <<120731, "M", <<956>>>>,
        <<120732, "M", <<957>>>>, <<120733, "M", <<958>>>>, <<120734, "M", <<959>>>>,
        <<120735, "M", <<960>>>>, <<120736, "M", <<961>>>>, <<120737, "M", <<952>>>>,
        <<120738, "M", <<963>>>>, <<120739, "M", <<964>>>>, <<120740, "M", <<965>>>>,
        <<120741, "M", <<966>>>>, <<120742, "M", <<967>>>>, <<120743, "M", <<968>>>>,
        <<120744, "M", <<969>>>>, <<120745, "M", <<8711>>>>, <<120746, "M", <<945>>>>,
        <<120747, "M", <<946>>>>, <<120748, "M", <<947>>>>, <<120749, "M", <<948>>>>,
        <<120750, "M", <<949>>>>, <<120751, "M", <<950>>>>, <<120752, "M", <<951>>>>,
        <<120753, "M", <<952>>>>, <<120754, "M", <<953>>>>, <<120755, "M", <<954>>>>,
        <<120756, "M", <<955>>>>, <<120757, "M", <<956>>>>, <<120758, "M", <<957>>>>,
        <<120759, "M", <<958>>>>, <<120760, "M", <<959>>>>, <<120761, "M", <<960>>>>,
        <<120762, "M", <<961>>>>, <<120763, "M", <<963>>>>, <<120765, "M", <<964>>>>,
        <<120766, "M", <<965>>>>, <<120767, "M", <<966>>>>, <<120768, "M", <<967>>>>,
        <<120769, "M", <<968>>>>, <<120770, "M", <<969>>>>, <<120771, "M", <<8706>>>>,
        <<120772, "M", <<949>>>>, <<120773, "M", <<952>>>>, <<120774, "M", <<954>>>>,
        <<120775, "M", <<966>>>>, <<120776, "M", <<961>>>>, <<120777, "M", <<960>>>>,
        <<120778, "M", <<989>>>>, <<120780, "X">>, <<120782, "M", <<48>>>>,
        <<120783, "M", <<49>>>>, <<120784, "M", <<50>>>>, <<120785, "M", <<51>>>>,
        <<120786, "M", <<52>>>>, <<120787, "M", <<53>>>>, <<120788, "M", <<54>>>>,
        <<120789, "M", <<55>>>>, <<120790, "M", <<56>>>>, <<120791, "M", <<57>>>>,
        <<120792, "M", <<48>>>>, <<120793, "M", <<49>>>>, <<120794, "M", <<50>>>>,
        <<120795, "M", <<51>>>>, <<120796, "M", <<52>>>>, <<120797, "M", <<53>>>>,
        <<120798, "M", <<54>>>>, <<120799, "M", <<55>>>>, <<120800, "M", <<56>>>>,
        <<120801, "M", <<57>>>>, <<120802, "M", <<48>>>>, <<120803, "M", <<49>>>>,
        <<120804, "M", <<50>>>>, <<120805, "M", <<51>>>>, <<120806, "M", <<52>>>>,
        <<120807, "M", <<53>>>>, <<120808, "M", <<54>>>>, <<120809, "M", <<55>>>>,
        <<120810, "M", <<56>>>>, <<120811, "M", <<57>>>>, <<120812, "M", <<48>>>>,
        <<120813, "M", <<49>>>>, <<120814, "M", <<50>>>>, <<120815, "M", <<51>>>>,
        <<120816, "M", <<52>>>>, <<120817, "M", <<53>>>>, <<120818, "M", <<54>>>>,
        <<120819, "M", <<55>>>>, <<120820, "M", <<56>>>>, <<120821, "M", <<57>>>>,
        <<120822, "M", <<48>>>>, <<120823, "M", <<49>>>>, <<120824, "M", <<50>>>>,
        <<120825, "M", <<51>>>>, <<120826, "M", <<52>>>>, <<120827, "M", <<53>>>>,
        <<120828, "M", <<54>>>>, <<120829, "M", <<55>>>>, <<120830, "M", <<56>>>>,
        <<120831, "M", <<57>>>>, <<120832, "V">>, <<121484, "X">>, <<121499, "V">>,
        <<121504, "X">>, <<121505, "V">>, <<121520, "X">>, <<122624, "V">>, <<122655, "X">>,
        <<122661, "V">>, <<122667, "X">>, <<122880, "V">>, <<122887, "X">>, <<122888, "V">>,
        <<122905, "X">>, <<122907, "V">>, <<122914, "X">>, <<122915, "V">>, <<122917, "X">>,
        <<122918, "V">>, <<122923, "X">>, <<122928, "M", <<1072>>>>, <<122929, "M", <<1073>>>>,
        <<122930, "M", <<1074>>>>, <<122931, "M", <<1075>>>>, <<122932, "M", <<1076>>>>,
        <<122933, "M", <<1077>>>>, <<122934, "M", <<1078>>>>, <<122935, "M", <<1079>>>>,
        <<122936, "M", <<1080>>>>, <<122937, "M", <<1082>>>>, <<122938, "M", <<1083>>>>,
        <<122939, "M", <<1084>>>>, <<122940, "M", <<1086>>>>, <<122941, "M", <<1087>>>>,
        <<122942, "M", <<1088>>>>, <<122943, "M", <<1089>>>>, <<122944, "M", <<1090>>>>,
        <<122945, "M", <<1091>>>>, <<122946, "M", <<1092>>>>, <<122947, "M", <<1093>>>>,
        <<122948, "M", <<1094>>>>, <<122949, "M", <<1095>>>>, <<122950, "M", <<1096>>>>,
        <<122951, "M", <<1099>>>>, <<122952, "M", <<1101>>>>, <<122953, "M", <<1102>>>>,
        <<122954, "M", <<42633>>>>, <<122955, "M", <<1241>>>>, <<122956, "M", <<1110>>>>,
        <<122957, "M", <<1112>>>>, <<122958, "M", <<1257>>>>, <<122959, "M", <<1199>>>>,
        <<122960, "M", <<1231>>>>, <<122961, "M", <<1072>>>>, <<122962, "M", <<1073>>>>,
        <<122963, "M", <<1074>>>>, <<122964, "M", <<1075>>>>, <<122965, "M", <<1076>>>>,
        <<122966, "M", <<1077>>>>, <<122967, "M", <<1078>>>>, <<122968, "M", <<1079>>>>,
        <<122969, "M", <<1080>>>>, <<122970, "M", <<1082>>>>, <<122971, "M", <<1083>>>>,
        <<122972, "M", <<1086>>>>, <<122973, "M", <<1087>>>>, <<122974, "M", <<1089>>>>,
        <<122975, "M", <<1091>>>>, <<122976, "M", <<1092>>>>, <<122977, "M", <<1093>>>>,
        <<122978, "M", <<1094>>>>, <<122979, "M", <<1095>>>>, <<122980, "M", <<1096>>>>,
        <<122981, "M", <<1098>>>>, <<122982, "M", <<1099>>>>, <<122983, "M", <<1169>>>>,
        <<122984, "M", <<1110>>>>, <<122985, "M", <<1109>>>>, <<122986, "M", <<1119>>>>,
        <<122987, "M", <<1195>>>>, <<122988, "M", <<42577>>>>, <<122989, "M", <<1201>>>>,
        <<122990, "X">>, <<123023, "V">>, <<123024, "X">>, <<123136, "V">>, <<123181, "X">>,
        <<123184, "V">>, <<123198, "X">>, <<123200, "V">>, <<123210, "X">>, <<123214, "V">>,
        <<123216, "X">>, <<123536, "V">>, <<123567, "X">>, <<123584, "V">>, <<123642, "X">>,
        <<123647, "V">>, <<123648, "X">>, <<124112, "V">>, <<124154, "X">>, <<124896, "V">>,
        <<124903, "X">>, <<124904, "V">>, <<124908, "X">>, <<124909, "V">>, <<124911, "X">>,
        <<124912, "V">>, <<124927, "X">>, <<124928, "V">>, <<125125, "X">>, <<125127, "V">>,
        <<125143, "X">>, <<125184, "M", <<125218>>>>, <<125185, "M", <<125219>>>>,
        <<125186, "M", <<125220>>>>, <<125187, "M", <<125221>>>>, <<125188, "M", <<125222>>>>,
        <<125189, "M", <<125223>>>>, <<125190, "M", <<125224>>>>, <<125191, "M", <<125225>>>>,
        <<125192, "M", <<125226>>>>, <<125193, "M", <<125227>>>>, <<125194, "M", <<125228>>>>,
        <<125195, "M", <<125229>>>>, <<125196, "M", <<125230>>>>, <<125197, "M", <<125231>>>>,
        <<125198, "M", <<125232>>>>, <<125199, "M", <<125233>>>>, <<125200, "M", <<125234>>>>,
        <<125201, "M", <<125235>>>>, <<125202, "M", <<125236>>>>, <<125203, "M", <<125237>>>>,
        <<125204, "M", <<125238>>>>, <<125205, "M", <<125239>>>>, <<125206, "M", <<125240>>>>,
        <<125207, "M", <<125241>>>>, <<125208, "M", <<125242>>>>, <<125209, "M", <<125243>>>>,
        <<125210, "M", <<125244>>>>, <<125211, "M", <<125245>>>>, <<125212, "M", <<125246>>>>,
        <<125213, "M", <<125247>>>>, <<125214, "M", <<125248>>>>, <<125215, "M", <<125249>>>>,
        <<125216, "M", <<125250>>>>, <<125217, "M", <<125251>>>>, <<125218, "V">>,
        <<125260, "X">>, <<125264, "V">>, <<125274, "X">>, <<125278, "V">>, <<125280, "X">>,
        <<126065, "V">>, <<126133, "X">>, <<126209, "V">>, <<126270, "X">>,
        <<126464, "M", <<1575>>>>, <<126465, "M", <<1576>>>>, <<126466, "M", <<1580>>>>,
        <<126467, "M", <<1583>>>>, <<126468, "X">>, <<126469, "M", <<1608>>>>,
        <<126470, "M", <<1586>>>>, <<126471, "M", <<1581>>>>, <<126472, "M", <<1591>>>>,
        <<126473, "M", <<1610>>>>, <<126474, "M", <<1603>>>>, <<126475, "M", <<1604>>>>,
        <<126476, "M", <<1605>>>>, <<126477, "M", <<1606>>>>, <<126478, "M", <<1587>>>>,
        <<126479, "M", <<1593>>>>, <<126480, "M", <<1601>>>>, <<126481, "M", <<1589>>>>,
        <<126482, "M", <<1602>>>>, <<126483, "M", <<1585>>>>, <<126484, "M", <<1588>>>>,
        <<126485, "M", <<1578>>>>, <<126486, "M", <<1579>>>>, <<126487, "M", <<1582>>>>,
        <<126488, "M", <<1584>>>>, <<126489, "M", <<1590>>>>, <<126490, "M", <<1592>>>>,
        <<126491, "M", <<1594>>>>, <<126492, "M", <<1646>>>>, <<126493, "M", <<1722>>>>,
        <<126494, "M", <<1697>>>>, <<126495, "M", <<1647>>>>, <<126496, "X">>,
        <<126497, "M", <<1576>>>>, <<126498, "M", <<1580>>>>, <<126499, "X">>,
        <<126500, "M", <<1607>>>>, <<126501, "X">>, <<126503, "M", <<1581>>>>, <<126504, "X">>,
        <<126505, "M", <<1610>>>>, <<126506, "M", <<1603>>>>, <<126507, "M", <<1604>>>>,
        <<126508, "M", <<1605>>>>, <<126509, "M", <<1606>>>>, <<126510, "M", <<1587>>>>,
        <<126511, "M", <<1593>>>>, <<126512, "M", <<1601>>>>, <<126513, "M", <<1589>>>>,
        <<126514, "M", <<1602>>>>, <<126515, "X">>, <<126516, "M", <<1588>>>>,
        <<126517, "M", <<1578>>>>, <<126518, "M", <<1579>>>>, <<126519, "M", <<1582>>>>,
        <<126520, "X">>, <<126521, "M", <<1590>>>>, <<126522, "X">>, <<126523, "M", <<1594>>>>,
        <<126524, "X">>, <<126530, "M", <<1580>>>>, <<126531, "X">>, <<126535, "M", <<1581>>>>,
        <<126536, "X">>, <<126537, "M", <<1610>>>>, <<126538, "X">>, <<126539, "M", <<1604>>>>,
        <<126540, "X">>, <<126541, "M", <<1606>>>>, <<126542, "M", <<1587>>>>,
        <<126543, "M", <<1593>>>>, <<126544, "X">>, <<126545, "M", <<1589>>>>,
        <<126546, "M", <<1602>>>>, <<126547, "X">>, <<126548, "M", <<1588>>>>, <<126549, "X">>,
        <<126551, "M", <<1582>>>>, <<126552, "X">>, <<126553, "M", <<1590>>>>, <<126554, "X">>,
        <<126555, "M", <<1594>>>>, <<126556, "X">>, <<126557, "M", <<1722>>>>, <<126558, "X">>,
        <<126559, "M", <<1647>>>>, <<126560, "X">>, <<126561, "M", <<1576>>>>,
        <<126562, "M", <<1580>>>>, <<126563, "X">>, <<126564, "M", <<1607>>>>, <<126565, "X">>,
        <<126567, "M", <<1581>>>>, <<126568, "M", <<1591>>>>, <<126569, "M", <<1610>>>>,
        <<126570, "M", <<1603>>>>, <<126571, "X">>, <<126572, "M", <<1605>>>>,
        <<126573, "M", <<1606>>>>, <<126574, "M", <<1587>>>>, <<126575, "M", <<1593>>>>,
        <<126576, "M", <<1601>>>>, <<126577, "M", <<1589>>>>, <<126578, "M", <<1602>>>>,
        <<126579, "X">>, <<126580, "M", <<1588>>>>, <<126581, "M", <<1578>>>>,
        <<126582, "M", <<1579>>>>, <<126583, "M", <<1582>>>>, <<126584, "X">>,
        <<126585, "M", <<1590>>>>, <<126586, "M", <<1592>>>>, <<126587, "M", <<1594>>>>,
        <<126588, "M", <<1646>>>>, <<126589, "X">>, <<126590, "M", <<1697>>>>, <<126591, "X">>,
        <<126592, "M", <<1575>>>>, <<126593, "M", <<1576>>>>, <<126594, "M", <<1580>>>>,
        <<126595, "M", <<1583>>>>, <<126596, "M", <<1607>>>>, <<126597, "M", <<1608>>>>,
        <<126598, "M", <<1586>>>>, <<126599, "M", <<1581>>>>, <<126600, "M", <<1591>>>>,
        <<126601, "M", <<1610>>>>, <<126602, "X">>, <<126603, "M", <<1604>>>>,
        <<126604, "M", <<1605>>>>, <<126605, "M", <<1606>>>>, <<126606, "M", <<1587>>>>,
        <<126607, "M", <<1593>>>>, <<126608, "M", <<1601>>>>, <<126609, "M", <<1589>>>>,
        <<126610, "M", <<1602>>>>, <<126611, "M", <<1585>>>>, <<126612, "M", <<1588>>>>,
        <<126613, "M", <<1578>>>>, <<126614, "M", <<1579>>>>, <<126615, "M", <<1582>>>>,
        <<126616, "M", <<1584>>>>, <<126617, "M", <<1590>>>>, <<126618, "M", <<1592>>>>,
        <<126619, "M", <<1594>>>>, <<126620, "X">>, <<126625, "M", <<1576>>>>,
        <<126626, "M", <<1580>>>>, <<126627, "M", <<1583>>>>, <<126628, "X">>,
        <<126629, "M", <<1608>>>>, <<126630, "M", <<1586>>>>, <<126631, "M", <<1581>>>>,
        <<126632, "M", <<1591>>>>, <<126633, "M", <<1610>>>>, <<126634, "X">>,
        <<126635, "M", <<1604>>>>, <<126636, "M", <<1605>>>>, <<126637, "M", <<1606>>>>,
        <<126638, "M", <<1587>>>>, <<126639, "M", <<1593>>>>, <<126640, "M", <<1601>>>>,
        <<126641, "M", <<1589>>>>, <<126642, "M", <<1602>>>>, <<126643, "M", <<1585>>>>,
        <<126644, "M", <<1588>>>>, <<126645, "M", <<1578>>>>, <<126646, "M", <<1579>>>>,
        <<126647, "M", <<1582>>>>, <<126648, "M", <<1584>>>>, <<126649, "M", <<1590>>>>,
        <<126650, "M", <<1592>>>>, <<126651, "M", <<1594>>>>, <<126652, "X">>, <<126704, "V">>,
        <<126706, "X">>, <<126976, "V">>, <<127020, "X">>, <<127024, "V">>, <<127124, "X">>,
        <<127136, "V">>, <<127151, "X">>, <<127153, "V">>, <<127168, "X">>, <<127169, "V">>,
        <<127184, "X">>, <<127185, "V">>, <<127222, "X">>, <<127233, "M", <<48, 44>>>>,
        <<127234, "M", <<49, 44>>>>, <<127235, "M", <<50, 44>>>>, <<127236, "M", <<51, 44>>>>,
        <<127237, "M", <<52, 44>>>>, <<127238, "M", <<53, 44>>>>, <<127239, "M", <<54, 44>>>>,
        <<127240, "M", <<55, 44>>>>, <<127241, "M", <<56, 44>>>>, <<127242, "M", <<57, 44>>>>,
        <<127243, "V">>, <<127248, "M", <<40, 97, 41>>>>, <<127249, "M", <<40, 98, 41>>>>,
        <<127250, "M", <<40, 99, 41>>>>, <<127251, "M", <<40, 100, 41>>>>,
        <<127252, "M", <<40, 101, 41>>>>, <<127253, "M", <<40, 102, 41>>>>,
        <<127254, "M", <<40, 103, 41>>>>, <<127255, "M", <<40, 104, 41>>>>,
        <<127256, "M", <<40, 105, 41>>>>, <<127257, "M", <<40, 106, 41>>>>,
        <<127258, "M", <<40, 107, 41>>>>, <<127259, "M", <<40, 108, 41>>>>,
        <<127260, "M", <<40, 109, 41>>>>, <<127261, "M", <<40, 110, 41>>>>,
        <<127262, "M", <<40, 111, 41>>>>, <<127263, "M", <<40, 112, 41>>>>,
        <<127264, "M", <<40, 113, 41>>>>, <<127265, "M", <<40, 114, 41>>>>,
        <<127266, "M", <<40, 115, 41>>>>, <<127267, "M", <<40, 116, 41>>>>,
        <<127268, "M", <<40, 117, 41>>>>, <<127269, "M", <<40, 118, 41>>>>,
        <<127270, "M", <<40, 119, 41>>>>, <<127271, "M", <<40, 120, 41>>>>,
        <<127272, "M", <<40, 121, 41>>>>, <<127273, "M", <<40, 122, 41>>>>,
        <<127274, "M", <<12308, 115, 12309>>>>, <<127275, "M", <<99>>>>,
        <<127276, "M", <<114>>>>, <<127277, "M", <<99, 100>>>>, <<127278, "M", <<119, 122>>>>,
        <<127279, "V">>, <<127280, "M", <<97>>>>, <<127281, "M", <<98>>>>,
        <<127282, "M", <<99>>>>, <<127283, "M", <<100>>>>, <<127284, "M", <<101>>>>,
        <<127285, "M", <<102>>>>, <<127286, "M", <<103>>>>, <<127287, "M", <<104>>>>,
        <<127288, "M", <<105>>>>, <<127289, "M", <<106>>>>, <<127290, "M", <<107>>>>,
        <<127291, "M", <<108>>>>, <<127292, "M", <<109>>>>, <<127293, "M", <<110>>>>,
        <<127294, "M", <<111>>>>, <<127295, "M", <<112>>>>, <<127296, "M", <<113>>>>,
        <<127297, "M", <<114>>>>, <<127298, "M", <<115>>>>, <<127299, "M", <<116>>>>,
        <<127300, "M", <<117>>>>, <<127301, "M", <<118>>>>, <<127302, "M", <<119>>>>,
        <<127303, "M", <<120>>>>, <<127304, "M", <<121>>>>, <<127305, "M", <<122>>>>,
        <<127306, "M", <<104, 118>>>>, <<127307, "M", <<109, 118>>>>,
        <<127308, "M", <<115, 100>>>>, <<127309, "M", <<115, 115>>>>,
        <<127310, "M", <<112, 112, 118>>>>, <<127311, "M", <<119, 99>>>>, <<127312, "V">>,
        <<127338, "M", <<109, 99>>>>, <<127339, "M", <<109, 100>>>>,
        <<127340, "M", <<109, 114>>>>, <<127341, "V">>, <<127376, "M", <<100, 106>>>>,
        <<127377, "V">>, <<127406, "X">>, <<127462, "V">>, <<127488, "M", <<12411, 12363>>>>,
        <<127489, "M", <<12467, 12467>>>>, <<127490, "M", <<12469>>>>, <<127491, "X">>,
        <<127504, "M", <<25163>>>>, <<127505, "M", <<23383>>>>, <<127506, "M", <<21452>>>>,
        <<127507, "M", <<12487>>>>, <<127508, "M", <<20108>>>>, <<127509, "M", <<22810>>>>,
        <<127510, "M", <<35299>>>>, <<127511, "M", <<22825>>>>, <<127512, "M", <<20132>>>>,
        <<127513, "M", <<26144>>>>, <<127514, "M", <<28961>>>>, <<127515, "M", <<26009>>>>,
        <<127516, "M", <<21069>>>>, <<127517, "M", <<24460>>>>, <<127518, "M", <<20877>>>>,
        <<127519, "M", <<26032>>>>, <<127520, "M", <<21021>>>>, <<127521, "M", <<32066>>>>,
        <<127522, "M", <<29983>>>>, <<127523, "M", <<36009>>>>, <<127524, "M", <<22768>>>>,
        <<127525, "M", <<21561>>>>, <<127526, "M", <<28436>>>>, <<127527, "M", <<25237>>>>,
        <<127528, "M", <<25429>>>>, <<127529, "M", <<19968>>>>, <<127530, "M", <<19977>>>>,
        <<127531, "M", <<36938>>>>, <<127532, "M", <<24038>>>>, <<127533, "M", <<20013>>>>,
        <<127534, "M", <<21491>>>>, <<127535, "M", <<25351>>>>, <<127536, "M", <<36208>>>>,
        <<127537, "M", <<25171>>>>, <<127538, "M", <<31105>>>>, <<127539, "M", <<31354>>>>,
        <<127540, "M", <<21512>>>>, <<127541, "M", <<28288>>>>, <<127542, "M", <<26377>>>>,
        <<127543, "M", <<26376>>>>, <<127544, "M", <<30003>>>>, <<127545, "M", <<21106>>>>,
        <<127546, "M", <<21942>>>>, <<127547, "M", <<37197>>>>, <<127548, "X">>,
        <<127552, "M", <<12308, 26412, 12309>>>>, <<127553, "M", <<12308, 19977, 12309>>>>,
        <<127554, "M", <<12308, 20108, 12309>>>>, <<127555, "M", <<12308, 23433, 12309>>>>,
        <<127556, "M", <<12308, 28857, 12309>>>>, <<127557, "M", <<12308, 25171, 12309>>>>,
        <<127558, "M", <<12308, 30423, 12309>>>>, <<127559, "M", <<12308, 21213, 12309>>>>,
        <<127560, "M", <<12308, 25943, 12309>>>>, <<127561, "X">>, <<127568, "M", <<24471>>>>,
        <<127569, "M", <<21487>>>>, <<127570, "X">>, <<127584, "V">>, <<127590, "X">>,
        <<127744, "V">>, <<128728, "X">>, <<128732, "V">>, <<128749, "X">>, <<128752, "V">>,
        <<128765, "X">>, <<128768, "V">>, <<128887, "X">>, <<128891, "V">>, <<128986, "X">>,
        <<128992, "V">>, <<129004, "X">>, <<129008, "V">>, <<129009, "X">>, <<129024, "V">>,
        <<129036, "X">>, <<129040, "V">>, <<129096, "X">>, <<129104, "V">>, <<129114, "X">>,
        <<129120, "V">>, <<129160, "X">>, <<129168, "V">>, <<129198, "X">>, <<129200, "V">>,
        <<129202, "X">>, <<129280, "V">>, <<129620, "X">>, <<129632, "V">>, <<129646, "X">>,
        <<129648, "V">>, <<129661, "X">>, <<129664, "V">>, <<129673, "X">>, <<129680, "V">>,
        <<129726, "X">>, <<129727, "V">>, <<129734, "X">>, <<129742, "V">>, <<129756, "X">>,
        <<129760, "V">>, <<129769, "X">>, <<129776, "V">>, <<129785, "X">>, <<129792, "V">>,
        <<129939, "X">>, <<129940, "V">>, <<129995, "X">>, <<130032, "M", <<48>>>>,
        <<130033, "M", <<49>>>>, <<130034, "M", <<50>>>>, <<130035, "M", <<51>>>>,
        <<130036, "M", <<52>>>>, <<130037, "M", <<53>>>>, <<130038, "M", <<54>>>>,
        <<130039, "M", <<55>>>>, <<130040, "M", <<56>>>>, <<130041, "M", <<57>>>>,
        <<130042, "X">>, <<131072, "V">>, <<173792, "X">>, <<173824, "V">>, <<177978, "X">>,
        <<177984, "V">>, <<178206, "X">>, <<178208, "V">>, <<183970, "X">>, <<183984, "V">>,
        <<191457, "X">>, <<194560, "M", <<20029>>>>, <<194561, "M", <<20024>>>>,
        <<194562, "M", <<20033>>>>, <<194563, "M", <<131362>>>>, <<194564, "M", <<20320>>>>,
        <<194565, "M", <<20398>>>>, <<194566, "M", <<20411>>>>, <<194567, "M", <<20482>>>>,
        <<194568, "M", <<20602>>>>, <<194569, "M", <<20633>>>>, <<194570, "M", <<20711>>>>,
        <<194571, "M", <<20687>>>>, <<194572, "M", <<13470>>>>, <<194573, "M", <<132666>>>>,
        <<194574, "M", <<20813>>>>, <<194575, "M", <<20820>>>>, <<194576, "M", <<20836>>>>,
        <<194577, "M", <<20855>>>>, <<194578, "M", <<132380>>>>, <<194579, "M", <<13497>>>>,
        <<194580, "M", <<20839>>>>, <<194581, "M", <<20877>>>>, <<194582, "M", <<132427>>>>,
        <<194583, "M", <<20887>>>>, <<194584, "M", <<20900>>>>, <<194585, "M", <<20172>>>>,
        <<194586, "M", <<20908>>>>, <<194587, "M", <<20917>>>>, <<194588, "M", <<168415>>>>,
        <<194589, "M", <<20981>>>>, <<194590, "M", <<20995>>>>, <<194591, "M", <<13535>>>>,
        <<194592, "M", <<21051>>>>, <<194593, "M", <<21062>>>>, <<194594, "M", <<21106>>>>,
        <<194595, "M", <<21111>>>>, <<194596, "M", <<13589>>>>, <<194597, "M", <<21191>>>>,
        <<194598, "M", <<21193>>>>, <<194599, "M", <<21220>>>>, <<194600, "M", <<21242>>>>,
        <<194601, "M", <<21253>>>>, <<194602, "M", <<21254>>>>, <<194603, "M", <<21271>>>>,
        <<194604, "M", <<21321>>>>, <<194605, "M", <<21329>>>>, <<194606, "M", <<21338>>>>,
        <<194607, "M", <<21363>>>>, <<194608, "M", <<21373>>>>, <<194609, "M", <<21375>>>>,
        <<194612, "M", <<133676>>>>, <<194613, "M", <<28784>>>>, <<194614, "M", <<21450>>>>,
        <<194615, "M", <<21471>>>>, <<194616, "M", <<133987>>>>, <<194617, "M", <<21483>>>>,
        <<194618, "M", <<21489>>>>, <<194619, "M", <<21510>>>>, <<194620, "M", <<21662>>>>,
        <<194621, "M", <<21560>>>>, <<194622, "M", <<21576>>>>, <<194623, "M", <<21608>>>>,
        <<194624, "M", <<21666>>>>, <<194625, "M", <<21750>>>>, <<194626, "M", <<21776>>>>,
        <<194627, "M", <<21843>>>>, <<194628, "M", <<21859>>>>, <<194629, "M", <<21892>>>>,
        <<194631, "M", <<21913>>>>, <<194632, "M", <<21931>>>>, <<194633, "M", <<21939>>>>,
        <<194634, "M", <<21954>>>>, <<194635, "M", <<22294>>>>, <<194636, "M", <<22022>>>>,
        <<194637, "M", <<22295>>>>, <<194638, "M", <<22097>>>>, <<194639, "M", <<22132>>>>,
        <<194640, "M", <<20999>>>>, <<194641, "M", <<22766>>>>, <<194642, "M", <<22478>>>>,
        <<194643, "M", <<22516>>>>, <<194644, "M", <<22541>>>>, <<194645, "M", <<22411>>>>,
        <<194646, "M", <<22578>>>>, <<194647, "M", <<22577>>>>, <<194648, "M", <<22700>>>>,
        <<194649, "M", <<136420>>>>, <<194650, "M", <<22770>>>>, <<194651, "M", <<22775>>>>,
        <<194652, "M", <<22790>>>>, <<194653, "M", <<22810>>>>, <<194654, "M", <<22818>>>>,
        <<194655, "M", <<22882>>>>, <<194656, "M", <<136872>>>>, <<194657, "M", <<136938>>>>,
        <<194658, "M", <<23020>>>>, <<194659, "M", <<23067>>>>, <<194660, "M", <<23079>>>>,
        <<194661, "M", <<23000>>>>, <<194662, "M", <<23142>>>>, <<194663, "M", <<14062>>>>,
        <<194664, "X">>, <<194665, "M", <<23304>>>>, <<194666, "M", <<23358>>>>,
        <<194668, "M", <<137672>>>>, <<194669, "M", <<23491>>>>, <<194670, "M", <<23512>>>>,
        <<194671, "M", <<23527>>>>, <<194672, "M", <<23539>>>>, <<194673, "M", <<138008>>>>,
        <<194674, "M", <<23551>>>>, <<194675, "M", <<23558>>>>, <<194676, "X">>,
        <<194677, "M", <<23586>>>>, <<194678, "M", <<14209>>>>, <<194679, "M", <<23648>>>>,
        <<194680, "M", <<23662>>>>, <<194681, "M", <<23744>>>>, <<194682, "M", <<23693>>>>,
        <<194683, "M", <<138724>>>>, <<194684, "M", <<23875>>>>, <<194685, "M", <<138726>>>>,
        <<194686, "M", <<23918>>>>, <<194687, "M", <<23915>>>>, <<194688, "M", <<23932>>>>,
        <<194689, "M", <<24033>>>>, <<194690, "M", <<24034>>>>, <<194691, "M", <<14383>>>>,
        <<194692, "M", <<24061>>>>, <<194693, "M", <<24104>>>>, <<194694, "M", <<24125>>>>,
        <<194695, "M", <<24169>>>>, <<194696, "M", <<14434>>>>, <<194697, "M", <<139651>>>>,
        <<194698, "M", <<14460>>>>, <<194699, "M", <<24240>>>>, <<194700, "M", <<24243>>>>,
        <<194701, "M", <<24246>>>>, <<194702, "M", <<24266>>>>, <<194703, "M", <<172946>>>>,
        <<194704, "M", <<24318>>>>, <<194705, "M", <<140081>>>>, <<194707, "M", <<33281>>>>,
        <<194708, "M", <<24354>>>>, <<194710, "M", <<14535>>>>, <<194711, "M", <<144056>>>>,
        <<194712, "M", <<156122>>>>, <<194713, "M", <<24418>>>>, <<194714, "M", <<24427>>>>,
        <<194715, "M", <<14563>>>>, <<194716, "M", <<24474>>>>, <<194717, "M", <<24525>>>>,
        <<194718, "M", <<24535>>>>, <<194719, "M", <<24569>>>>, <<194720, "M", <<24705>>>>,
        <<194721, "M", <<14650>>>>, <<194722, "M", <<14620>>>>, <<194723, "M", <<24724>>>>,
        <<194724, "M", <<141012>>>>, <<194725, "M", <<24775>>>>, <<194726, "M", <<24904>>>>,
        <<194727, "M", <<24908>>>>, <<194728, "M", <<24910>>>>, <<194729, "M", <<24908>>>>,
        <<194730, "M", <<24954>>>>, <<194731, "M", <<24974>>>>, <<194732, "M", <<25010>>>>,
        <<194733, "M", <<24996>>>>, <<194734, "M", <<25007>>>>, <<194735, "M", <<25054>>>>,
        <<194736, "M", <<25074>>>>, <<194737, "M", <<25078>>>>, <<194738, "M", <<25104>>>>,
        <<194739, "M", <<25115>>>>, <<194740, "M", <<25181>>>>, <<194741, "M", <<25265>>>>,
        <<194742, "M", <<25300>>>>, <<194743, "M", <<25424>>>>, <<194744, "M", <<142092>>>>,
        <<194745, "M", <<25405>>>>, <<194746, "M", <<25340>>>>, <<194747, "M", <<25448>>>>,
        <<194748, "M", <<25475>>>>, <<194749, "M", <<25572>>>>, <<194750, "M", <<142321>>>>,
        <<194751, "M", <<25634>>>>, <<194752, "M", <<25541>>>>, <<194753, "M", <<25513>>>>,
        <<194754, "M", <<14894>>>>, <<194755, "M", <<25705>>>>, <<194756, "M", <<25726>>>>,
        <<194757, "M", <<25757>>>>, <<194758, "M", <<25719>>>>, <<194759, "M", <<14956>>>>,
        <<194760, "M", <<25935>>>>, <<194761, "M", <<25964>>>>, <<194762, "M", <<143370>>>>,
        <<194763, "M", <<26083>>>>, <<194764, "M", <<26360>>>>, <<194765, "M", <<26185>>>>,
        <<194766, "M", <<15129>>>>, <<194767, "M", <<26257>>>>, <<194768, "M", <<15112>>>>,
        <<194769, "M", <<15076>>>>, <<194770, "M", <<20882>>>>, <<194771, "M", <<20885>>>>,
        <<194772, "M", <<26368>>>>, <<194773, "M", <<26268>>>>, <<194774, "M", <<32941>>>>,
        <<194775, "M", <<17369>>>>, <<194776, "M", <<26391>>>>, <<194777, "M", <<26395>>>>,
        <<194778, "M", <<26401>>>>, <<194779, "M", <<26462>>>>, <<194780, "M", <<26451>>>>,
        <<194781, "M", <<144323>>>>, <<194782, "M", <<15177>>>>, <<194783, "M", <<26618>>>>,
        <<194784, "M", <<26501>>>>, <<194785, "M", <<26706>>>>, <<194786, "M", <<26757>>>>,
        <<194787, "M", <<144493>>>>, <<194788, "M", <<26766>>>>, <<194789, "M", <<26655>>>>,
        <<194790, "M", <<26900>>>>, <<194791, "M", <<15261>>>>, <<194792, "M", <<26946>>>>,
        <<194793, "M", <<27043>>>>, <<194794, "M", <<27114>>>>, <<194795, "M", <<27304>>>>,
        <<194796, "M", <<145059>>>>, <<194797, "M", <<27355>>>>, <<194798, "M", <<15384>>>>,
        <<194799, "M", <<27425>>>>, <<194800, "M", <<145575>>>>, <<194801, "M", <<27476>>>>,
        <<194802, "M", <<15438>>>>, <<194803, "M", <<27506>>>>, <<194804, "M", <<27551>>>>,
        <<194805, "M", <<27578>>>>, <<194806, "M", <<27579>>>>, <<194807, "M", <<146061>>>>,
        <<194808, "M", <<138507>>>>, <<194809, "M", <<146170>>>>, <<194810, "M", <<27726>>>>,
        <<194811, "M", <<146620>>>>, <<194812, "M", <<27839>>>>, <<194813, "M", <<27853>>>>,
        <<194814, "M", <<27751>>>>, <<194815, "M", <<27926>>>>, <<194816, "M", <<27966>>>>,
        <<194817, "M", <<28023>>>>, <<194818, "M", <<27969>>>>, <<194819, "M", <<28009>>>>,
        <<194820, "M", <<28024>>>>, <<194821, "M", <<28037>>>>, <<194822, "M", <<146718>>>>,
        <<194823, "M", <<27956>>>>, <<194824, "M", <<28207>>>>, <<194825, "M", <<28270>>>>,
        <<194826, "M", <<15667>>>>, <<194827, "M", <<28363>>>>, <<194828, "M", <<28359>>>>,
        <<194829, "M", <<147153>>>>, <<194830, "M", <<28153>>>>, <<194831, "M", <<28526>>>>,
        <<194832, "M", <<147294>>>>, <<194833, "M", <<147342>>>>, <<194834, "M", <<28614>>>>,
        <<194835, "M", <<28729>>>>, <<194836, "M", <<28702>>>>, <<194837, "M", <<28699>>>>,
        <<194838, "M", <<15766>>>>, <<194839, "M", <<28746>>>>, <<194840, "M", <<28797>>>>,
        <<194841, "M", <<28791>>>>, <<194842, "M", <<28845>>>>, <<194843, "M", <<132389>>>>,
        <<194844, "M", <<28997>>>>, <<194845, "M", <<148067>>>>, <<194846, "M", <<29084>>>>,
        <<194847, "X">>, <<194848, "M", <<29224>>>>, <<194849, "M", <<29237>>>>,
        <<194850, "M", <<29264>>>>, <<194851, "M", <<149000>>>>, <<194852, "M", <<29312>>>>,
        <<194853, "M", <<29333>>>>, <<194854, "M", <<149301>>>>, <<194855, "M", <<149524>>>>,
        <<194856, "M", <<29562>>>>, <<194857, "M", <<29579>>>>, <<194858, "M", <<16044>>>>,
        <<194859, "M", <<29605>>>>, <<194860, "M", <<16056>>>>, <<194862, "M", <<29767>>>>,
        <<194863, "M", <<29788>>>>, <<194864, "M", <<29809>>>>, <<194865, "M", <<29829>>>>,
        <<194866, "M", <<29898>>>>, <<194867, "M", <<16155>>>>, <<194868, "M", <<29988>>>>,
        <<194869, "M", <<150582>>>>, <<194870, "M", <<30014>>>>, <<194871, "M", <<150674>>>>,
        <<194872, "M", <<30064>>>>, <<194873, "M", <<139679>>>>, <<194874, "M", <<30224>>>>,
        <<194875, "M", <<151457>>>>, <<194876, "M", <<151480>>>>, <<194877, "M", <<151620>>>>,
        <<194878, "M", <<16380>>>>, <<194879, "M", <<16392>>>>, <<194880, "M", <<30452>>>>,
        <<194881, "M", <<151795>>>>, <<194882, "M", <<151794>>>>, <<194883, "M", <<151833>>>>,
        <<194884, "M", <<151859>>>>, <<194885, "M", <<30494>>>>, <<194886, "M", <<30495>>>>,
        <<194888, "M", <<30538>>>>, <<194889, "M", <<16441>>>>, <<194890, "M", <<30603>>>>,
        <<194891, "M", <<16454>>>>, <<194892, "M", <<16534>>>>, <<194893, "M", <<152605>>>>,
        <<194894, "M", <<30798>>>>, <<194895, "M", <<30860>>>>, <<194896, "M", <<30924>>>>,
        <<194897, "M", <<16611>>>>, <<194898, "M", <<153126>>>>, <<194899, "M", <<31062>>>>,
        <<194900, "M", <<153242>>>>, <<194901, "M", <<153285>>>>, <<194902, "M", <<31119>>>>,
        <<194903, "M", <<31211>>>>, <<194904, "M", <<16687>>>>, <<194905, "M", <<31296>>>>,
        <<194906, "M", <<31306>>>>, <<194907, "M", <<31311>>>>, <<194908, "M", <<153980>>>>,
        <<194909, "M", <<154279>>>>, <<194911, "X">>, <<194912, "M", <<16898>>>>,
        <<194913, "M", <<154539>>>>, <<194914, "M", <<31686>>>>, <<194915, "M", <<31689>>>>,
        <<194916, "M", <<16935>>>>, <<194917, "M", <<154752>>>>, <<194918, "M", <<31954>>>>,
        <<194919, "M", <<17056>>>>, <<194920, "M", <<31976>>>>, <<194921, "M", <<31971>>>>,
        <<194922, "M", <<32000>>>>, <<194923, "M", <<155526>>>>, <<194924, "M", <<32099>>>>,
        <<194925, "M", <<17153>>>>, <<194926, "M", <<32199>>>>, <<194927, "M", <<32258>>>>,
        <<194928, "M", <<32325>>>>, <<194929, "M", <<17204>>>>, <<194930, "M", <<156200>>>>,
        <<194931, "M", <<156231>>>>, <<194932, "M", <<17241>>>>, <<194933, "M", <<156377>>>>,
        <<194934, "M", <<32634>>>>, <<194935, "M", <<156478>>>>, <<194936, "M", <<32661>>>>,
        <<194937, "M", <<32762>>>>, <<194938, "M", <<32773>>>>, <<194939, "M", <<156890>>>>,
        <<194940, "M", <<156963>>>>, <<194941, "M", <<32864>>>>, <<194942, "M", <<157096>>>>,
        <<194943, "M", <<32880>>>>, <<194944, "M", <<144223>>>>, <<194945, "M", <<17365>>>>,
        <<194946, "M", <<32946>>>>, <<194947, "M", <<33027>>>>, <<194948, "M", <<17419>>>>,
        <<194949, "M", <<33086>>>>, <<194950, "M", <<23221>>>>, <<194951, "M", <<157607>>>>,
        <<194952, "M", <<157621>>>>, <<194953, "M", <<144275>>>>, <<194954, "M", <<144284>>>>,
        <<194955, "M", <<33281>>>>, <<194956, "M", <<33284>>>>, <<194957, "M", <<36766>>>>,
        <<194958, "M", <<17515>>>>, <<194959, "M", <<33425>>>>, <<194960, "M", <<33419>>>>,
        <<194961, "M", <<33437>>>>, <<194962, "M", <<21171>>>>, <<194963, "M", <<33457>>>>,
        <<194964, "M", <<33459>>>>, <<194965, "M", <<33469>>>>, <<194966, "M", <<33510>>>>,
        <<194967, "M", <<158524>>>>, <<194968, "M", <<33509>>>>, <<194969, "M", <<33565>>>>,
        <<194970, "M", <<33635>>>>, <<194971, "M", <<33709>>>>, <<194972, "M", <<33571>>>>,
        <<194973, "M", <<33725>>>>, <<194974, "M", <<33767>>>>, <<194975, "M", <<33879>>>>,
        <<194976, "M", <<33619>>>>, <<194977, "M", <<33738>>>>, <<194978, "M", <<33740>>>>,
        <<194979, "M", <<33756>>>>, <<194980, "M", <<158774>>>>, <<194981, "M", <<159083>>>>,
        <<194982, "M", <<158933>>>>, <<194983, "M", <<17707>>>>, <<194984, "M", <<34033>>>>,
        <<194985, "M", <<34035>>>>, <<194986, "M", <<34070>>>>, <<194987, "M", <<160714>>>>,
        <<194988, "M", <<34148>>>>, <<194989, "M", <<159532>>>>, <<194990, "M", <<17757>>>>,
        <<194991, "M", <<17761>>>>, <<194992, "M", <<159665>>>>, <<194993, "M", <<159954>>>>,
        <<194994, "M", <<17771>>>>, <<194995, "M", <<34384>>>>, <<194996, "M", <<34396>>>>,
        <<194997, "M", <<34407>>>>, <<194998, "M", <<34409>>>>, <<194999, "M", <<34473>>>>,
        <<195000, "M", <<34440>>>>, <<195001, "M", <<34574>>>>, <<195002, "M", <<34530>>>>,
        <<195003, "M", <<34681>>>>, <<195004, "M", <<34600>>>>, <<195005, "M", <<34667>>>>,
        <<195006, "M", <<34694>>>>, <<195007, "X">>, <<195008, "M", <<34785>>>>,
        <<195009, "M", <<34817>>>>, <<195010, "M", <<17913>>>>, <<195011, "M", <<34912>>>>,
        <<195012, "M", <<34915>>>>, <<195013, "M", <<161383>>>>, <<195014, "M", <<35031>>>>,
        <<195015, "M", <<35038>>>>, <<195016, "M", <<17973>>>>, <<195017, "M", <<35066>>>>,
        <<195018, "M", <<13499>>>>, <<195019, "M", <<161966>>>>, <<195020, "M", <<162150>>>>,
        <<195021, "M", <<18110>>>>, <<195022, "M", <<18119>>>>, <<195023, "M", <<35488>>>>,
        <<195024, "M", <<35565>>>>, <<195025, "M", <<35722>>>>, <<195026, "M", <<35925>>>>,
        <<195027, "M", <<162984>>>>, <<195028, "M", <<36011>>>>, <<195029, "M", <<36033>>>>,
        <<195030, "M", <<36123>>>>, <<195031, "M", <<36215>>>>, <<195032, "M", <<163631>>>>,
        <<195033, "M", <<133124>>>>, <<195034, "M", <<36299>>>>, <<195035, "M", <<36284>>>>,
        <<195036, "M", <<36336>>>>, <<195037, "M", <<133342>>>>, <<195038, "M", <<36564>>>>,
        <<195039, "M", <<36664>>>>, <<195040, "M", <<165330>>>>, <<195041, "M", <<165357>>>>,
        <<195042, "M", <<37012>>>>, <<195043, "M", <<37105>>>>, <<195044, "M", <<37137>>>>,
        <<195045, "M", <<165678>>>>, <<195046, "M", <<37147>>>>, <<195047, "M", <<37432>>>>,
        <<195048, "M", <<37591>>>>, <<195049, "M", <<37592>>>>, <<195050, "M", <<37500>>>>,
        <<195051, "M", <<37881>>>>, <<195052, "M", <<37909>>>>, <<195053, "M", <<166906>>>>,
        <<195054, "M", <<38283>>>>, <<195055, "M", <<18837>>>>, <<195056, "M", <<38327>>>>,
        <<195057, "M", <<167287>>>>, <<195058, "M", <<18918>>>>, <<195059, "M", <<38595>>>>,
        <<195060, "M", <<23986>>>>, <<195061, "M", <<38691>>>>, <<195062, "M", <<168261>>>>,
        <<195063, "M", <<168474>>>>, <<195064, "M", <<19054>>>>, <<195065, "M", <<19062>>>>,
        <<195066, "M", <<38880>>>>, <<195067, "M", <<168970>>>>, <<195068, "M", <<19122>>>>,
        <<195069, "M", <<169110>>>>, <<195070, "M", <<38923>>>>, <<195072, "M", <<38953>>>>,
        <<195073, "M", <<169398>>>>, <<195074, "M", <<39138>>>>, <<195075, "M", <<19251>>>>,
        <<195076, "M", <<39209>>>>, <<195077, "M", <<39335>>>>, <<195078, "M", <<39362>>>>,
        <<195079, "M", <<39422>>>>, <<195080, "M", <<19406>>>>, <<195081, "M", <<170800>>>>,
        <<195082, "M", <<39698>>>>, <<195083, "M", <<40000>>>>, <<195084, "M", <<40189>>>>,
        <<195085, "M", <<19662>>>>, <<195086, "M", <<19693>>>>, <<195087, "M", <<40295>>>>,
        <<195088, "M", <<172238>>>>, <<195089, "M", <<19704>>>>, <<195090, "M", <<172293>>>>,
        <<195091, "M", <<172558>>>>, <<195092, "M", <<172689>>>>, <<195093, "M", <<40635>>>>,
        <<195094, "M", <<19798>>>>, <<195095, "M", <<40697>>>>, <<195096, "M", <<40702>>>>,
        <<195097, "M", <<40709>>>>, <<195098, "M", <<40719>>>>, <<195099, "M", <<40726>>>>,
        <<195100, "M", <<40763>>>>, <<195101, "M", <<173568>>>>, <<195102, "X">>,
        <<196608, "V">>, <<201547, "X">>, <<201552, "V">>, <<205744, "X">>, <<917760, "I">>,
        <<918000, "X">> >>

\* for each block of 1024 code points of IdnaMappingTable, from U+0000 on: the number
\* of the last row that begins at or before the first code point of the block
IdnaMappingIndex ==
    <<
        1, 524, 841, 1020, 1188, 1243, 1269, 1321, 1936, 2145, 2269, 2282, 2716, 3357, 3357,
        3357, 3357, 3357, 3357, 3357, 3357, 3357, 3357, 3357, 3357, 3357, 3357, 3357, 3357,
        3357, 3357, 3357, 3357, 3357, 3357, 3357, 3357, 3357, 3357, 3357, 3357, 3357, 3615,
        3748, 3748, 3748, 3748, 3748, 3748, 3748, 3748, 3748, 3748, 3748, 3753, 3753, 3753,
        3753, 3753, 3753, 3753, 3753, 3753, 4336, 5129, 5173, 5374, 5438, 5516, 5586, 5614,
        5680, 5732, 5734, 5739, 5739, 5742, 5742, 5745, 5745, 5745, 5746, 5747, 5747, 5747,
        5747, 5747, 5747, 5747, 5747, 5748, 5771, 5816, 5816, 5816, 5816, 5816, 5816, 5818,
        5818, 5821, 5821, 5821, 5821, 5821, 5821, 5821, 5821, 5828, 5839, 5839, 5840, 5850,
        5850, 5850, 5850, 5857, 5890, 6900, 6905, 6910, 6998, 7009, 7052, 7233, 7393, 7407,
        7451, 7452, 7452, 7452, 7452, 7452, 7452, 7452, 7452, 7452, 7452, 7452, 7452, 7452,
        7452, 7452, 7452, 7452, 7452, 7452, 7452, 7452, 7452, 7452, 7452, 7452, 7452, 7452,
        7452, 7452, 7452, 7452, 7452, 7452, 7452, 7452, 7452, 7452, 7452, 7452, 7452, 7452,
        7452, 7454, 7454, 7454, 7454, 7456, 7458, 7458, 7458, 7458, 7458, 7460, 7460, 7460,
        7460, 7460, 7460, 7460, 7461, 7461, 7461, 7462, 7994, 7995, 7995, 7995, 7995, 7995,
        7997, 7997, 7997, 7997, 7998, 7998, 7998, 7998, 7998, 7998, 7998, 7998, 7998, 7998,
        7998, 7998, 7998, 7998, 7998, 7998, 7998, 7998, 7998, 7998, 7998, 7998, 7998, 7998,
        7998, 7998, 7998, 7998, 7998, 7998, 7998, 7998, 7998, 7998, 7998, 7998, 7998, 7998,
        7998, 7998, 7998, 7998, 7998, 7998, 7998, 7998, 7998, 7998, 7998, 7998, 7998, 7998,
        7998, 7998, 7998, 7998, 7998, 7998, 7998, 7998, 7998, 7998, 7998, 7998, 7998, 7998,
        7998, 7998, 7998, 7998, 7998, 7998, 7998, 7998, 7998, 7998, 7998, 7998, 7998, 7998,
        7998, 7998, 7998, 7998, 7998, 7998, 7998, 7998, 7998, 7998, 7998, 7998, 7998, 7998,
        7998, 7998, 7998, 7998, 7998, 7998, 7998, 7998, 7998, 7998, 7998, 7998, 7998, 7998,
        7998, 7998, 7998, 7998, 7998, 7998, 7998, 7998, 7998, 7998, 7998, 7998, 7998, 7998,
        7998, 7998, 7998, 7998, 7998, 7998, 7998, 7998, 7998, 7998, 7998, 7998, 7998, 7998,
        7998, 7998, 7998, 7998, 7998, 7998, 7998, 7998, 7998, 7998, 7998, 7998, 7998, 7998,
        7998, 7998, 7998, 7998, 7998, 7998, 7998, 7998, 7998, 7998, 7998, 7998, 7998, 7998,
        7998, 7998, 7998, 7998, 7998, 7998, 7998, 7998, 7998, 7998, 7998, 7998, 7998, 7998,
        7998, 7998, 7998, 7998, 7998, 7998, 7998, 7998, 7998, 7998, 7998, 7998, 7998, 7998,
        7998, 7998, 7998, 7998, 7998, 7998, 7998, 7998, 7998, 7998, 7998, 7998, 7998, 7998,
        7998, 7998, 7998, 7998, 7998, 7998, 7998, 7998, 7998, 7998, 7998, 7998, 7998, 7998,
        7998, 7998, 7998, 7998, 7998, 7998, 7998, 7998, 7998, 7998, 7998, 7998, 7998, 7998,
        7998, 7998, 7998, 7998, 7998, 7998, 7998, 7998, 7998, 7998, 7998, 7998, 7998, 7998,
        7998, 7998, 7998, 7998, 7998, 7998, 7998, 7998, 7998, 7998, 7998, 7998, 7998, 7998,
        7998, 7998, 7998, 7998, 7998, 7998, 7998, 7998, 7998, 7998, 7998, 7998, 7998, 7998,
        7998, 7998, 7998, 7998, 7998, 7998, 7998, 7998, 7998, 7998, 7998, 7998, 7998, 7998,
        7998, 7998, 7998, 7998, 7998, 7998, 7998, 7998, 7998, 7998, 7998, 7998, 7998, 7998,
        7998, 7998, 7998, 7998, 7998, 7998, 7998, 7998, 7998, 7998, 7998, 7998, 7998, 7998,
        7998, 7998, 7998, 7998, 7998, 7998, 7998, 7998, 7998, 7998, 7998, 7998, 7998, 7998,
        7998, 7998, 7998, 7998, 7998, 7998, 7998, 7998, 7998, 7998, 7998, 7998, 7998, 7998,
        7998, 7998, 7998, 7998, 7998, 7998, 7998, 7998, 7998, 7998, 7998, 7998, 7998, 7998,
        7998, 7998, 7998, 7998, 7998, 7998, 7998, 7998, 7998, 7998, 7998, 7998, 7998, 7998,
        7998, 7998, 7998, 7998, 7998, 7998, 7998, 7998, 7998, 7998, 7998, 7998, 7998, 7998,
        7998, 7998, 7998, 7998, 7998, 7998, 7998, 7998, 7998, 7998, 7998, 7998, 7998, 7998,
        7998, 7998, 7998, 7998, 7998, 7998, 7998, 7998, 7998, 7998, 7998, 7998, 7998, 7998,
        7998, 7998, 7998, 7998, 7998, 7998, 7998, 7998, 7998, 7998, 7998, 7998, 7998, 7998,
        7998, 7998, 7998, 7998, 7998, 7998, 7998, 7998, 7998, 7998, 7998, 7998, 7998, 7998,
        7998, 7998, 7998, 7998, 7998, 7998, 7998, 7998, 7998, 7998, 7998, 7998, 7998, 7998,
        7998, 7998, 7998, 7998, 7998, 7998, 7998, 7998, 7998, 7998, 7998, 7998, 7998, 7998,
        7998, 7998, 7998, 7998, 7998, 7998, 7998, 7998, 7998, 7998, 7998, 7998, 7998, 7998,
        7998, 7998, 7998, 7998, 7998, 7998, 7998, 7998, 7998, 7998, 7998, 7998, 7998, 7998,
        7998, 7998, 7998, 7998, 7998, 7998, 7998, 7998, 7998, 7998, 7998, 7998, 7998, 7998,
        7998, 7998, 7998, 7998, 7998, 7998, 7998, 7998, 7998, 7998, 7998, 7998, 7998, 7998,
        7998, 7998, 7998, 7998, 7998, 7998, 7998, 7998, 7998, 7998, 7998, 7998, 7998, 7998,
        7998, 7998, 7998, 7998, 7998, 7998, 7998, 7998, 7998, 7998, 7998, 7998, 7998, 7998,
        7998, 7998, 7998, 7998, 7998, 7998, 7998, 7998, 7998, 7998, 7998, 7998, 7998, 7998,
        7998, 7998, 7998, 7998, 7998, 7998, 7998, 7998, 7998, 7998, 7998, 7998, 7998, 7998,
        7998, 7998, 7998, 7998, 7998, 7998, 7998, 7998, 7998, 7998, 7998, 7998, 7998, 7998,
        7998, 7998, 7998, 7998, 7998, 7998, 7998, 7998, 7998, 7998, 7998, 7998, 7998, 7998,
        7998, 7998, 7998, 7998, 7998, 7998, 7998, 7998, 7998, 7998, 7998, 7998, 7998, 7998,
        7998, 7998, 7998, 7998, 7998, 7998, 7998, 7998, 7998, 7998, 7998, 7998, 7998, 7998,
        7998, 7998, 7998, 7998, 7998, 7998, 7998, 7998, 7998, 7998, 7998, 7998, 7998, 7998,
        7998, 7998, 7998, 7998, 7998, 7998, 7998, 7998, 7998, 7998, 7998, 7998, 7998, 7998,
        7998, 7998, 7998, 7998, 7998, 7998, 7998, 7998, 7998, 7998, 7998, 7998, 7998, 7998,
        7998, 7998, 7998, 7998, 7998, 7998, 7998, 7998, 7998, 7998, 7998, 7998, 7998, 7998,
        8000, 8000, 8000, 8000, 8000, 8000, 8000, 8000, 8000, 8000, 8000, 8000, 8000, 8000,
        8000, 8000, 8000, 8000, 8000, 8000, 8000, 8000, 8000, 8000, 8000, 8000, 8000, 8000,
        8000, 8000, 8000, 8000, 8000, 8000, 8000, 8000, 8000, 8000, 8000, 8000, 8000, 8000,
        8000, 8000, 8000, 8000, 8000, 8000, 8000, 8000, 8000, 8000, 8000, 8000, 8000, 8000,
        8000, 8000, 8000, 8000, 8000, 8000, 8000, 8000, 8000, 8000, 8000, 8000, 8000, 8000,
        8000, 8000, 8000, 8000, 8000, 8000, 8000, 8000, 8000, 8000, 8000, 8000, 8000, 8000,
        8000, 8000, 8000, 8000, 8000, 8000, 8000, 8000, 8000, 8000, 8000, 8000, 8000, 8000,
        8000, 8000, 8000, 8000, 8000, 8000, 8000, 8000, 8000, 8000, 8000, 8000, 8000, 8000,
        8000, 8000, 8000, 8000, 8000, 8000, 8000, 8000, 8000, 8000, 8000, 8000, 8000, 8000,
        8000, 8000, 8000, 8000, 8000, 8000, 8000, 8000, 8000, 8000, 8000, 8000, 8000, 8000,
        8000, 8000, 8000, 8000, 8000, 8000, 8000, 8000, 8000, 8000, 8000, 8000, 8000, 8000,
        8000, 8000, 8000, 8000, 8000, 8000, 8000, 8000, 8000, 8000, 8000, 8000, 8000, 8000,
        8000, 8000, 8000, 8000, 8000, 8000, 8000, 8000, 8000, 8000, 8000, 8000, 8000, 8000,
        8000, 8000, 8000, 8000, 8000, 8000, 8000, 8000, 8000 >>

\* properties of the code points (Unicode 15.0): a row is the first code point
\* of a range, whether its General_Category is a Mark, and its
\* Canonical_Combining_Class
CodePointProperties ==
    <<
        <<0, FALSE, 0>>, <<768, TRUE, 230>>, <<789, TRUE, 232>>, <<790, TRUE, 220>>,
        <<794, TRUE, 232>>, <<795, TRUE, 216>>, <<796, TRUE, 220>>, <<801, TRUE, 202>>,
        <<803, TRUE, 220>>, <<807, TRUE, 202>>, <<809, TRUE, 220>>, <<820, TRUE, 1>>,
        <<825, TRUE, 220>>, <<829, TRUE, 230>>, <<837, TRUE, 240>>, <<838, TRUE, 230>>,
        <<839, TRUE, 220>>, <<842, TRUE, 230>>, <<845, TRUE, 220>>, <<847, TRUE, 0>>,
        <<848, TRUE, 230>>, <<851, TRUE, 220>>, <<855, TRUE, 230>>, <<856, TRUE, 232>>,
        <<857, TRUE, 220>>, <<859, TRUE, 230>>, <<860, TRUE, 233>>, <<861, TRUE, 234>>,
        <<863, TRUE, 233>>, <<864, TRUE, 234>>, <<866, TRUE, 233>>, <<867, TRUE, 230>>,
        <<880, FALSE, 0>>, <<1155, TRUE, 230>>, <<1160, TRUE, 0>>, <<1162, FALSE, 0>>,
        <<1425, TRUE, 220>>, <<1426, TRUE, 230>>, <<1430, TRUE, 220>>, <<1431, TRUE, 230>>,
        <<1434, TRUE, 222>>, <<1435, TRUE, 220>>, <<1436, TRUE, 230>>, <<1442, TRUE, 220>>,
        <<1448, TRUE, 230>>, <<1450, TRUE, 220>>, <<1451, TRUE, 230>>, <<1453, TRUE, 222>>,
        <<1454, TRUE, 228>>, <<1455, TRUE, 230>>, <<1456, TRUE, 10>>, <<1457, TRUE, 11>>,
        <<1458, TRUE, 12>>, <<1459, TRUE, 13>>, <<1460, TRUE, 14>>, <<1461, TRUE, 15>>,
        <<1462, TRUE, 16>>, <<1463, TRUE, 17>>, <<1464, TRUE, 18>>, <<1465, TRUE, 19>>,
        <<1467, TRUE, 20>>, <<1468, TRUE, 21>>, <<1469, TRUE, 22>>, <<1470, FALSE, 0>>,
        <<1471, TRUE, 23>>, <<1472, FALSE, 0>>, <<1473, TRUE, 24>>, <<1474, TRUE, 25>>,
        <<1475, FALSE, 0>>, <<1476, TRUE, 230>>, <<1477, TRUE, 220>>, <<1478, FALSE, 0>>,
        <<1479, TRUE, 18>>, <<1480, FALSE, 0>>, <<1552, TRUE, 230>>, <<1560, TRUE, 30>>,
        <<1561, TRUE, 31>>, <<1562, TRUE, 32>>, <<1563, FALSE, 0>>, <<1611, TRUE, 27>>,
        <<1612, TRUE, 28>>, <<1613, TRUE, 29>>, <<1614, TRUE, 30>>, <<1615, TRUE, 31>>,
        <<1616, TRUE, 32>>, <<1617, TRUE, 33>>, <<1618, TRUE, 34>>, <<1619, TRUE, 230>>,
        <<1621, TRUE, 220>>, <<1623, TRUE, 230>>, <<1628, TRUE, 220>>, <<1629, TRUE, 230>>,
        <<1631, TRUE, 220>>, <<1632, FALSE, 0>>, <<1648, TRUE, 35>>, <<1649, FALSE, 0>>,
        <<1750, TRUE, 230>>, <<1757, FALSE, 0>>, <<1759, TRUE, 230>>, <<1763, TRUE, 220>>,
        <<1764, TRUE, 230>>, <<1765, FALSE, 0>>, <<1767, TRUE, 230>>, <<1769, FALSE, 0>>,
        <<1770, TRUE, 220>>, <<1771, TRUE, 230>>, <<1773, TRUE, 220>>, <<1774, FALSE, 0>>,
        <<1809, TRUE, 36>>, <<1810, FALSE, 0>>, <<1840, TRUE, 230>>, <<1841, TRUE, 220>>,
        <<1842, TRUE, 230>>, <<1844, TRUE, 220>>, <<1845, TRUE, 230>>, <<1847, TRUE, 220>>,
        <<1850, TRUE, 230>>, <<1851, TRUE, 220>>, <<1853, TRUE, 230>>, <<1854, TRUE, 220>>,
        <<1855, TRUE, 230>>, <<1858, TRUE, 220>>, <<1859, TRUE, 230>>, <<1860, TRUE, 220>>,
        <<1861, TRUE, 230>>, <<1862, TRUE, 220>>, <<1863, TRUE, 230>>, <<1864, TRUE, 220>>,
        <<1865, TRUE, 230>>, <<1867, FALSE, 0>>, <<1958, TRUE, 0>>, <<1969, FALSE, 0>>,
        <<2027, TRUE, 230>>, <<2034, TRUE, 220>>, <<2035, TRUE, 230>>, <<2036, FALSE, 0>>,
        <<2045, TRUE, 220>>, <<2046, FALSE, 0>>, <<2070, TRUE, 230>>, <<2074, FALSE, 0>>,
        <<2075, TRUE, 230>>, <<2084, FALSE, 0>>, <<2085, TRUE, 230>>, <<2088, FALSE, 0>>,
        <<2089, TRUE, 230>>, <<2094, FALSE, 0>>, <<2137, TRUE, 220>>, <<2140, FALSE, 0>>,
        <<2200, TRUE, 230>>, <<2201, TRUE, 220>>, <<2204, TRUE, 230>>, <<2208, FALSE, 0>>,
        <<2250, TRUE, 230>>, <<2255, TRUE, 220>>, <<2260, TRUE, 230>>, <<2274, FALSE, 0>>,
        <<2275, TRUE, 220>>, <<2276, TRUE, 230>>, <<2278, TRUE, 220>>, <<2279, TRUE, 230>>,
        <<2281, TRUE, 220>>, <<2282, TRUE, 230>>, <<2285, TRUE, 220>>, <<2288, TRUE, 27>>,
        <<2289, TRUE, 28>>, <<2290, TRUE, 29>>, <<2291, TRUE, 230>>, <<2294, TRUE, 220>>,
        <<2295, TRUE, 230>>, <<2297, TRUE, 220>>, <<2299, TRUE, 230>>, <<2304, TRUE, 0>>,
        <<2308, FALSE, 0>>, <<2362, TRUE, 0>>, <<2364, TRUE, 7>>, <<2365, FALSE, 0>>,
        <<2366, TRUE, 0>>, <<2381, TRUE, 9>>, <<2382, TRUE, 0>>, <<2384, FALSE, 0>>,
        <<2385, TRUE, 230>>, <<2386, TRUE, 220>>, <<2387, TRUE, 230>>, <<2389, TRUE, 0>>,
        <<2392, FALSE, 0>>, <<2402, TRUE, 0>>, <<2404, FALSE, 0>>, <<2433, TRUE, 0>>,
        <<2436, FALSE, 0>>, <<2492, TRUE, 7>>, <<2493, FALSE, 0>>, <<2494, TRUE, 0>>,
        <<2501, FALSE, 0>>, <<2503, TRUE, 0>>, <<2505, FALSE, 0>>, <<2507, TRUE, 0>>,
        <<2509, TRUE, 9>>, <<2510, FALSE, 0>>, <<2519, TRUE, 0>>, <<2520, FALSE, 0>>,
        <<2530, TRUE, 0>>, <<2532, FALSE, 0>>, <<2558, TRUE, 230>>, <<2559, FALSE, 0>>,
        <<2561, TRUE, 0>>, <<2564, FALSE, 0>>, <<2620, TRUE, 7>>, <<2621, FALSE, 0>>,
        <<2622, TRUE, 0>>, <<2627, FALSE, 0>>, <<2631, TRUE, 0>>, <<2633, FALSE, 0>>,
        <<2635, TRUE, 0>>, <<2637, TRUE, 9>>, <<2638, FALSE, 0>>, <<2641, TRUE, 0>>,
        <<2642, FALSE, 0>>, <<2672, TRUE, 0>>, <<2674, FALSE, 0>>, <<2677, TRUE, 0>>,
        <<2678, FALSE, 0>>, <<2689, TRUE, 0>>, <<2692, FALSE, 0>>, <<2748, TRUE, 7>>,
        <<2749, FALSE, 0>>, <<2750, TRUE, 0>>, <<2758, FALSE, 0>>, <<2759, TRUE, 0>>,
        <<2762, FALSE, 0>>, <<2763, TRUE, 0>>, <<2765, TRUE, 9>>, <<2766, FALSE, 0>>,
        <<2786, TRUE, 0>>, <<2788, FALSE, 0>>, <<2810, TRUE, 0>>, <<2816, FALSE, 0>>,
        <<2817, TRUE, 0>>, <<2820, FALSE, 0>>, <<2876, TRUE, 7>>, <<2877, FALSE, 0>>,
        <<2878, TRUE, 0>>, <<2885, FALSE, 0>>, <<2887, TRUE, 0>>, <<2889, FALSE, 0>>,
        <<2891, TRUE, 0>>, <<2893, TRUE, 9>>, <<2894, FALSE, 0>>, <<2901, TRUE, 0>>,
        <<2904, FALSE, 0>>, <<2914, TRUE, 0>>, <<2916, FALSE, 0>>, <<2946, TRUE, 0>>,
        <<2947, FALSE, 0>>, <<3006, TRUE, 0>>, <<3011, FALSE, 0>>, <<3014, TRUE, 0>>,
        <<3017, FALSE, 0>>, <<3018, TRUE, 0>>, <<3021, TRUE, 9>>, <<3022, FALSE, 0>>,
        <<3031, TRUE, 0>>, <<3032, FALSE, 0>>, <<3072, TRUE, 0>>, <<3077, FALSE, 0>>,
        <<3132, TRUE, 7>>, <<3133, FALSE, 0>>, <<3134, TRUE, 0>>, <<3141, FALSE, 0>>,
        <<3142, TRUE, 0>>, <<3145, FALSE, 0>>, <<3146, TRUE, 0>>, <<3149, TRUE, 9>>,
        <<3150, FALSE, 0>>, <<3157, TRUE, 84>>, <<3158, TRUE, 91>>, <<3159, FALSE, 0>>,
        <<3170, TRUE, 0>>, <<3172, FALSE, 0>>, <<3201, TRUE, 0>>, <<3204, FALSE, 0>>,
        <<3260, TRUE, 7>>, <<3261, FALSE, 0>>, <<3262, TRUE, 0>>, <<3269, FALSE, 0>>,
        <<3270, TRUE, 0>>, <<3273, FALSE, 0>>, <<3274, TRUE, 0>>, <<3277, TRUE, 9>>,
        <<3278, FALSE, 0>>, <<3285, TRUE, 0>>, <<3287, FALSE, 0>>, <<3298, TRUE, 0>>,
        <<3300, FALSE, 0>>, <<3315, TRUE, 0>>, <<3316, FALSE, 0>>, <<3328, TRUE, 0>>,
        <<3332, FALSE, 0>>, <<3387, TRUE, 9>>, <<3389, FALSE, 0>>, <<3390, TRUE, 0>>,
        <<3397, FALSE, 0>>, <<3398, TRUE, 0>>, <<3401, FALSE, 0>>, <<3402, TRUE, 0>>,
        <<3405, TRUE, 9>>, <<3406, FALSE, 0>>, <<3415, TRUE, 0>>, <<3416, FALSE, 0>>,
        <<3426, TRUE, 0>>, <<3428, FALSE, 0>>, <<3457, TRUE, 0>>, <<3460, FALSE, 0>>,
        <<3530, TRUE, 9>>, <<3531, FALSE, 0>>, <<3535, TRUE, 0>>, <<3541, FALSE, 0>>,
        <<3542, TRUE, 0>>, <<3543, FALSE, 0>>, <<3544, TRUE, 0>>, <<3552, FALSE, 0>>,
        <<3570, TRUE, 0>>, <<3572, FALSE, 0>>, <<3633, TRUE, 0>>, <<3634, FALSE, 0>>,
        <<3636, TRUE, 0>>, <<3640, TRUE, 103>>, <<3642, TRUE, 9>>, <<3643, FALSE, 0>>,
        <<3655, TRUE, 0>>, <<3656, TRUE, 107>>, <<3660, TRUE, 0>>, <<3663, FALSE, 0>>,
        <<3761, TRUE, 0>>, <<3762, FALSE, 0>>, <<3764, TRUE, 0>>, <<3768, TRUE, 118>>,
        <<3770, TRUE, 9>>, <<3771, TRUE, 0>>, <<3773, FALSE, 0>>, <<3784, TRUE, 122>>,
        <<3788, TRUE, 0>>, <<3791, FALSE, 0>>, <<3864, TRUE, 220>>, <<3866, FALSE, 0>>,
        <<3893, TRUE, 220>>, <<3894, FALSE, 0>>, <<3895, TRUE, 220>>, <<3896, FALSE, 0>>,
        <<3897, TRUE, 216>>, <<3898, FALSE, 0>>, <<3902, TRUE, 0>>, <<3904, FALSE, 0>>,
        <<3953, TRUE, 129>>, <<3954, TRUE, 130>>, <<3955, TRUE, 0>>, <<3956, TRUE, 132>>,
        <<3957, TRUE, 0>>, <<3962, TRUE, 130>>, <<3966, TRUE, 0>>, <<3968, TRUE, 130>>,
        <<3969, TRUE, 0>>, <<3970, TRUE, 230>>, <<3972, TRUE, 9>>, <<3973, FALSE, 0>>,
        <<3974, TRUE, 230>>, <<3976, FALSE, 0>>, <<3981, TRUE, 0>>, <<3992, FALSE, 0>>,
        <<3993, TRUE, 0>>, <<4029, FALSE, 0>>, <<4038, TRUE, 220>>, <<4039, FALSE, 0>>,
        <<4139, TRUE, 0>>, <<4151, TRUE, 7>>, <<4152, TRUE, 0>>, <<4153, TRUE, 9>>,
        <<4155, TRUE, 0>>, <<4159, FALSE, 0>>, <<4182, TRUE, 0>>, <<4186, FALSE, 0>>,
        <<4190, TRUE, 0>>, <<4193, FALSE, 0>>, <<4194, TRUE, 0>>, <<4197, FALSE, 0>>,
        <<4199, TRUE, 0>>, <<4206, FALSE, 0>>, <<4209, TRUE, 0>>, <<4213, FALSE, 0>>,
        <<4226, TRUE, 0>>, <<4237, TRUE, 220>>, <<4238, FALSE, 0>>, <<4239, TRUE, 0>>,
        <<4240, FALSE, 0>>, <<4250, TRUE, 0>>, <<4254, FALSE, 0>>, <<4957, TRUE, 230>>,
        <<4960, FALSE, 0>>, <<5906, TRUE, 0>>, <<5908, TRUE, 9>>, <<5910, FALSE, 0>>,
        <<5938, TRUE, 0>>, <<5940, TRUE, 9>>, <<5941, FALSE, 0>>, <<5970, TRUE, 0>>,
        <<5972, FALSE, 0>>, <<6002, TRUE, 0>>, <<6004, FALSE, 0>>, <<6068, TRUE, 0>>,
        <<6098, TRUE, 9>>, <<6099, TRUE, 0>>, <<6100, FALSE, 0>>, <<6109, TRUE, 230>>,
        <<6110, FALSE, 0>>, <<6155, TRUE, 0>>, <<6158, FALSE, 0>>, <<6159, TRUE, 0>>,
        <<6160, FALSE, 0>>, <<6277, TRUE, 0>>, <<6279, FALSE, 0>>, <<6313, TRUE, 228>>,
        <<6314, FALSE, 0>>, <<6432, TRUE, 0>>, <<6444, FALSE, 0>>, <<6448, TRUE, 0>>,
        <<6457, TRUE, 222>>, <<6458, TRUE, 230>>, <<6459, TRUE, 220>>, <<6460, FALSE, 0>>,
        <<6679, TRUE, 230>>, <<6680, TRUE, 220>>, <<6681, TRUE, 0>>, <<6684, FALSE, 0>>,
        <<6741, TRUE, 0>>, <<6751, FALSE, 0>>, <<6752, TRUE, 9>>, <<6753, TRUE, 0>>,
        <<6773, TRUE, 230>>, <<6781, FALSE, 0>>, <<6783, TRUE, 220>>, <<6784, FALSE, 0>>,
        <<6832, TRUE, 230>>, <<6837, TRUE, 220>>, <<6843, TRUE, 230>>, <<6845, TRUE, 220>>,
        <<6846, TRUE, 0>>, <<6847, TRUE, 220>>, <<6849, TRUE, 230>>, <<6851, TRUE, 220>>,
        <<6853, TRUE, 230>>, <<6858, TRUE, 220>>, <<6859, TRUE, 230>>, <<6863, FALSE, 0>>,
        <<6912, TRUE, 0>>, <<6917, FALSE, 0>>, <<6964, TRUE, 7>>, <<6965, TRUE, 0>>,
        <<6980, TRUE, 9>>, <<6981, FALSE, 0>>, <<7019, TRUE, 230>>, <<7020, TRUE, 220>>,
        <<7021, TRUE, 230>>, <<7028, FALSE, 0>>, <<7040, TRUE, 0>>, <<7043, FALSE, 0>>,
        <<7073, TRUE, 0>>, <<7082, TRUE, 9>>, <<7084, TRUE, 0>>, <<7086, FALSE, 0>>,
        <<7142, TRUE, 7>>, <<7143, TRUE, 0>>, <<7154, TRUE, 9>>, <<7156, FALSE, 0>>,
        <<7204, TRUE, 0>>, <<7223, TRUE, 7>>, <<7224, FALSE, 0>>, <<7376, TRUE, 230>>,
        <<7379, FALSE, 0>>, <<7380, TRUE, 1>>, <<7381, TRUE, 220>>, <<7386, TRUE, 230>>,
        <<7388, TRUE, 220>>, <<7392, TRUE, 230>>, <<7393, TRUE, 0>>, <<7394, TRUE, 1>>,
        <<7401, FALSE, 0>>, <<7405, TRUE, 220>>, <<7406, FALSE, 0>>, <<7412, TRUE, 230>>,
        <<7413, FALSE, 0>>, <<7415, TRUE, 0>>, <<7416, TRUE, 230>>, <<7418, FALSE, 0>>,
        <<7616, TRUE, 230>>, <<7618, TRUE, 220>>, <<7619, TRUE, 230>>, <<7626, TRUE, 220>>,
        <<7627, TRUE, 230>>, <<7629, TRUE, 234>>, <<7630, TRUE, 214>>, <<7631, TRUE, 220>>,
        <<7632, TRUE, 202>>, <<7633, TRUE, 230>>, <<7670, TRUE, 232>>, <<7671, TRUE, 228>>,
        <<7673, TRUE, 220>>, <<7674, TRUE, 218>>, <<7675, TRUE, 230>>, <<7676, TRUE, 233>>,
        <<7677, TRUE, 220>>, <<7678, TRUE, 230>>, <<7679, TRUE, 220>>, <<7680, FALSE, 0>>,
        <<8400, TRUE, 230>>, <<8402, TRUE, 1>>, <<8404, TRUE, 230>>, <<8408, TRUE, 1>>,
        <<8411, TRUE, 230>>, <<8413, TRUE, 0>>, <<8417, TRUE, 230>>, <<8418, TRUE, 0>>,
        <<8421, TRUE, 1>>, <<8423, TRUE, 230>>, <<8424, TRUE, 220>>, <<8425, TRUE, 230>>,
        <<8426, TRUE, 1>>, <<8428, TRUE, 220>>, <<8432, TRUE, 230>>, <<8433, FALSE, 0>>,
        <<11503, TRUE, 230>>, <<11506, FALSE, 0>>, <<11647, TRUE, 9>>, <<11648, FALSE, 0>>,
        <<11744, TRUE, 230>>, <<11776, FALSE, 0>>, <<12330, TRUE, 218>>, <<12331, TRUE, 228>>,
        <<12332, TRUE, 232>>, <<12333, TRUE, 222>>, <<12334, TRUE, 224>>, <<12336, FALSE, 0>>,
        <<12441, TRUE, 8>>, <<12443, FALSE, 0>>, <<42607, TRUE, 230>>, <<42608, TRUE, 0>>,
        <<42611, FALSE, 0>>, <<42612, TRUE, 230>>, <<42622, FALSE, 0>>, <<42654, TRUE, 230>>,
        <<42656, FALSE, 0>>, <<42736, TRUE, 230>>, <<42738, FALSE, 0>>, <<43010, TRUE, 0>>,
        <<43011, FALSE, 0>>, <<43014, TRUE, 9>>, <<43015, FALSE, 0>>, <<43019, TRUE, 0>>,
        <<43020, FALSE, 0>>, <<43043, TRUE, 0>>, <<43048, FALSE, 0>>, <<43052, TRUE, 9>>,
        <<43053, FALSE, 0>>, <<43136, TRUE, 0>>, <<43138, FALSE, 0>>, <<43188, TRUE, 0>>,
        <<43204, TRUE, 9>>, <<43205, TRUE, 0>>, <<43206, FALSE, 0>>, <<43232, TRUE, 230>>,
        <<43250, FALSE, 0>>, <<43263, TRUE, 0>>, <<43264, FALSE, 0>>, <<43302, TRUE, 0>>,
        <<43307, TRUE, 220>>, <<43310, FALSE, 0>>, <<43335, TRUE, 0>>, <<43347, TRUE, 9>>,
        <<43348, FALSE, 0>>, <<43392, TRUE, 0>>, <<43396, FALSE, 0>>, <<43443, TRUE, 7>>,
        <<43444, TRUE, 0>>, <<43456, TRUE, 9>>, <<43457, FALSE, 0>>, <<43493, TRUE, 0>>,
        <<43494, FALSE, 0>>, <<43561, TRUE, 0>>, <<43575, FALSE, 0>>, <<43587, TRUE, 0>>,
        <<43588, FALSE, 0>>, <<43596, TRUE, 0>>, <<43598, FALSE, 0>>, <<43643, TRUE, 0>>,
        <<43646, FALSE, 0>>, <<43696, TRUE, 230>>, <<43697, FALSE, 0>>, <<43698, TRUE, 230>>,
        <<43700, TRUE, 220>>, <<43701, FALSE, 0>>, <<43703, TRUE, 230>>, <<43705, FALSE, 0>>,
        <<43710, TRUE, 230>>, <<43712, FALSE, 0>>, <<43713, TRUE, 230>>, <<43714, FALSE, 0>>,
        <<43755, TRUE, 0>>, <<43760, FALSE, 0>>, <<43765, TRUE, 0>>, <<43766, TRUE, 9>>,
        <<43767, FALSE, 0>>, <<44003, TRUE, 0>>, <<44011, FALSE, 0>>, <<44012, TRUE, 0>>,
        <<44013, TRUE, 9>>, <<44014, FALSE, 0>>, <<64286, TRUE, 26>>, <<64287, FALSE, 0>>,
        <<65024, TRUE, 0>>, <<65040, FALSE, 0>>, <<65056, TRUE, 230>>, <<65063, TRUE, 220>>,
        <<65070, TRUE, 230>>, <<65072, FALSE, 0>>, <<66045, TRUE, 220>>, <<66046, FALSE, 0>>,
        <<66272, TRUE, 220>>, <<66273, FALSE, 0>>, <<66422, TRUE, 230>>, <<66427, FALSE, 0>>,
        <<68097, TRUE, 0>>, <<68100, FALSE, 0>>, <<68101, TRUE, 0>>, <<68103, FALSE, 0>>,
        <<68108, TRUE, 0>>, <<68109, TRUE, 220>>, <<68110, TRUE, 0>>, <<68111, TRUE, 230>>,
        <<68112, FALSE, 0>>, <<68152, TRUE, 230>>, <<68153, TRUE, 1>>, <<68154, TRUE, 220>>,
        <<68155, FALSE, 0>>, <<68159, TRUE, 9>>, <<68160, FALSE, 0>>, <<68325, TRUE, 230>>,
        <<68326, TRUE, 220>>, <<68327, FALSE, 0>>, <<68900, TRUE, 230>>, <<68904, FALSE, 0>>,
        <<69291, TRUE, 230>>, <<69293, FALSE, 0>>, <<69373, TRUE, 220>>, <<69376, FALSE, 0>>,
        <<69446, TRUE, 220>>, <<69448, TRUE, 230>>, <<69451, TRUE, 220>>, <<69452, TRUE, 230>>,
        <<69453, TRUE, 220>>, <<69457, FALSE, 0>>, <<69506, TRUE, 230>>, <<69507, TRUE, 220>>,
        <<69508, TRUE, 230>>, <<69509, TRUE, 220>>, <<69510, FALSE, 0>>, <<69632, TRUE, 0>>,
        <<69635, FALSE, 0>>, <<69688, TRUE, 0>>, <<69702, TRUE, 9>>, <<69703, FALSE, 0>>,
        <<69744, TRUE, 9>>, <<69745, FALSE, 0>>, <<69747, TRUE, 0>>, <<69749, FALSE, 0>>,
        <<69759, TRUE, 9>>, <<69760, TRUE, 0>>, <<69763, FALSE, 0>>, <<69808, TRUE, 0>>,
        <<69817, TRUE, 9>>, <<69818, TRUE, 7>>, <<69819, FALSE, 0>>, <<69826, TRUE, 0>>,
        <<69827, FALSE, 0>>, <<69888, TRUE, 230>>, <<69891, FALSE, 0>>, <<69927, TRUE, 0>>,
        <<69939, TRUE, 9>>, <<69941, FALSE, 0>>, <<69957, TRUE, 0>>, <<69959, FALSE, 0>>,
        <<70003, TRUE, 7>>, <<70004, FALSE, 0>>, <<70016, TRUE, 0>>, <<70019, FALSE, 0>>,
        <<70067, TRUE, 0>>, <<70080, TRUE, 9>>, <<70081, FALSE, 0>>, <<70089, TRUE, 0>>,
        <<70090, TRUE, 7>>, <<70091, TRUE, 0>>, <<70093, FALSE, 0>>, <<70094, TRUE, 0>>,
        <<70096, FALSE, 0>>, <<70188, TRUE, 0>>, <<70197, TRUE, 9>>, <<70198, TRUE, 7>>,
        <<70199, TRUE, 0>>, <<70200, FALSE, 0>>, <<70206, TRUE, 0>>, <<70207, FALSE, 0>>,
        <<70209, TRUE, 0>>, <<70210, FALSE, 0>>, <<70367, TRUE, 0>>, <<70377, TRUE, 7>>,
        <<70378, TRUE, 9>>, <<70379, FALSE, 0>>, <<70400, TRUE, 0>>, <<70404, FALSE, 0>>,
        <<70459, TRUE, 7>>, <<70461, FALSE, 0>>, <<70462, TRUE, 0>>, <<70469, FALSE, 0>>,
        <<70471, TRUE, 0>>, <<70473, FALSE, 0>>, <<70475, TRUE, 0>>, <<70477, TRUE, 9>>,
        <<70478, FALSE, 0>>, <<70487, TRUE, 0>>, <<70488, FALSE, 0>>, <<70498, TRUE, 0>>,
        <<70500, FALSE, 0>>, <<70502, TRUE, 230>>, <<70509, FALSE, 0>>, <<70512, TRUE, 230>>,
        <<70517, FALSE, 0>>, <<70709, TRUE, 0>>, <<70722, TRUE, 9>>, <<70723, TRUE, 0>>,
        <<70726, TRUE, 7>>, <<70727, FALSE, 0>>, <<70750, TRUE, 230>>, <<70751, FALSE, 0>>,
        <<70832, TRUE, 0>>, <<70850, TRUE, 9>>, <<70851, TRUE, 7>>, <<70852, FALSE, 0>>,
        <<71087, TRUE, 0>>, <<71094, FALSE, 0>>, <<71096, TRUE, 0>>, <<71103, TRUE, 9>>,
        <<71104, TRUE, 7>>, <<71105, FALSE, 0>>, <<71132, TRUE, 0>>, <<71134, FALSE, 0>>,
        <<71216, TRUE, 0>>, <<71231, TRUE, 9>>, <<71232, TRUE, 0>>, <<71233, FALSE, 0>>,
        <<71339, TRUE, 0>>, <<71350, TRUE, 9>>, <<71351, TRUE, 7>>, <<71352, FALSE, 0>>,
        <<71453, TRUE, 0>>, <<71467, TRUE, 9>>, <<71468, FALSE, 0>>, <<71724, TRUE, 0>>,
        <<71737, TRUE, 9>>, <<71738, TRUE, 7>>, <<71739, FALSE, 0>>, <<71984, TRUE, 0>>,
        <<71990, FALSE, 0>>, <<71991, TRUE, 0>>, <<71993, FALSE, 0>>, <<71995, TRUE, 0>>,
        <<71997, TRUE, 9>>, <<71999, FALSE, 0>>, <<72000, TRUE, 0>>, <<72001, FALSE, 0>>,
        <<72002, TRUE, 0>>, <<72003, TRUE, 7>>, <<72004, FALSE, 0>>, <<72145, TRUE, 0>>,
        <<72152, FALSE, 0>>, <<72154, TRUE, 0>>, <<72160, TRUE, 9>>, <<72161, FALSE, 0>>,
        <<72164, TRUE, 0>>, <<72165, FALSE, 0>>, <<72193, TRUE, 0>>, <<72203, FALSE, 0>>,
        <<72243, TRUE, 0>>, <<72244, TRUE, 9>>, <<72245, TRUE, 0>>, <<72250, FALSE, 0>>,
        <<72251, TRUE, 0>>, <<72255, FALSE, 0>>, <<72263, TRUE, 9>>, <<72264, FALSE, 0>>,
        <<72273, TRUE, 0>>, <<72284, FALSE, 0>>, <<72330, TRUE, 0>>, <<72345, TRUE, 9>>,
        <<72346, FALSE, 0>>, <<72751, TRUE, 0>>, <<72759, FALSE, 0>>, <<72760, TRUE, 0>>,
        <<72767, TRUE, 9>>, <<72768, FALSE, 0>>, <<72850, TRUE, 0>>, <<72872, FALSE, 0>>,
        <<72873, TRUE, 0>>, <<72887, FALSE, 0>>, <<73009, TRUE, 0>>, <<73015, FALSE, 0>>,
        <<73018, TRUE, 0>>, <<73019, FALSE, 0>>, <<73020, TRUE, 0>>, <<73022, FALSE, 0>>,
        <<73023, TRUE, 0>>, <<73026, TRUE, 7>>, <<73027, TRUE, 0>>, <<73028, TRUE, 9>>,
        <<73030, FALSE, 0>>, <<73031, TRUE, 0>>, <<73032, FALSE, 0>>, <<73098, TRUE, 0>>,
        <<73103, FALSE, 0>>, <<73104, TRUE, 0>>, <<73106, FALSE, 0>>, <<73107, TRUE, 0>>,
        <<73111, TRUE, 9>>, <<73112, FALSE, 0>>, <<73459, TRUE, 0>>, <<73463, FALSE, 0>>,
        <<73472, TRUE, 0>>, <<73474, FALSE, 0>>, <<73475, TRUE, 0>>, <<73476, FALSE, 0>>,
        <<73524, TRUE, 0>>, <<73531, FALSE, 0>>, <<73534, TRUE, 0>>, <<73537, TRUE, 9>>,
        <<73539, FALSE, 0>>, <<78912, TRUE, 0>>, <<78913, FALSE, 0>>, <<78919, TRUE, 0>>,
        <<78934, FALSE, 0>>, <<92912, TRUE, 1>>, <<92917, FALSE, 0>>, <<92976, TRUE, 230>>,
        <<92983, FALSE, 0>>, <<94031, TRUE, 0>>, <<94032, FALSE, 0>>, <<94033, TRUE, 0>>,
        <<94088, FALSE, 0>>, <<94095, TRUE, 0>>, <<94099, FALSE, 0>>, <<94180, TRUE, 0>>,
        <<94181, FALSE, 0>>, <<94192, TRUE, 6>>, <<94194, FALSE, 0>>, <<113821, TRUE, 0>>,
        <<113822, TRUE, 1>>, <<113823, FALSE, 0>>, <<118528, TRUE, 0>>, <<118574, FALSE, 0>>,
        <<118576, TRUE, 0>>, <<118599, FALSE, 0>>, <<119141, TRUE, 216>>, <<119143, TRUE, 1>>,
        <<119146, FALSE, 0>>, <<119149, TRUE, 226>>, <<119150, TRUE, 216>>,
        <<119155, FALSE, 0>>, <<119163, TRUE, 220>>, <<119171, FALSE, 0>>,
        <<119173, TRUE, 230>>, <<119178, TRUE, 220>>, <<119180, FALSE, 0>>,
        <<119210, TRUE, 230>>, <<119214, FALSE, 0>>, <<119362, TRUE, 230>>,
        <<119365, FALSE, 0>>, <<121344, TRUE, 0>>, <<121399, FALSE, 0>>, <<121403, TRUE, 0>>,
        <<121453, FALSE, 0>>, <<121461, TRUE, 0>>, <<121462, FALSE, 0>>, <<121476, TRUE, 0>>,
        <<121477, FALSE, 0>>, <<121499, TRUE, 0>>, <<121504, FALSE, 0>>, <<121505, TRUE, 0>>,
        <<121520, FALSE, 0>>, <<122880, TRUE, 230>>, <<122887, FALSE, 0>>,
        <<122888, TRUE, 230>>, <<122905, FALSE, 0>>, <<122907, TRUE, 230>>,
        <<122914, FALSE, 0>>, <<122915, TRUE, 230>>, <<122917, FALSE, 0>>,
        <<122918, TRUE, 230>>, <<122923, FALSE, 0>>, <<123023, TRUE, 230>>,
        <<123024, FALSE, 0>>, <<123184, TRUE, 230>>, <<123191, FALSE, 0>>,
        <<123566, TRUE, 230>>, <<123567, FALSE, 0>>, <<123628, TRUE, 230>>,
        <<123632, FALSE, 0>>, <<124140, TRUE, 232>>, <<124142, TRUE, 220>>,
        <<124143, TRUE, 230>>, <<124144, FALSE, 0>>, <<125136, TRUE, 220>>,
        <<125143, FALSE, 0>>, <<125252, TRUE, 230>>, <<125258, TRUE, 7>>, <<125259, FALSE, 0>>,
        <<917760, TRUE, 0>>, <<918000, FALSE, 0>> >>

\* for each block of 1024 code points of CodePointProperties, from U+0000 on: the number
\* of the last row that begins at or before the first code point of the block
CodePointIndex ==
    <<
        1, 33, 138, 263, 372, 397, 413, 472, 512, 528, 528, 528, 534, 542, 542, 542, 542, 542,
        542, 542, 542, 542, 542, 542, 542, 542, 542, 542, 542, 542, 542, 542, 542, 542, 542,
        542, 542, 542, 542, 542, 542, 542, 551, 614, 614, 614, 614, 614, 614, 614, 614, 614,
        614, 614, 614, 614, 614, 614, 614, 614, 614, 614, 614, 616, 622, 628, 628, 646, 664,
        733, 763, 801, 841, 841, 841, 841, 841, 841, 845, 845, 845, 845, 845, 845, 845, 845,
        845, 845, 845, 845, 845, 849, 859, 859, 859, 859, 859, 859, 859, 859, 859, 859, 859,
        859, 859, 859, 859, 859, 859, 859, 859, 859, 862, 862, 862, 862, 866, 881, 881, 893,
        894, 911, 915, 920, 920, 920, 920, 920, 920, 920, 920, 920, 920, 920, 920, 920, 920,
        920, 920, 920, 920, 920, 920, 920, 920, 920, 920, 920, 920, 920, 920, 920, 920, 920,
        920, 920, 920, 920, 920, 920, 920, 920, 920, 920, 920, 920, 920, 920, 920, 920, 920,
        920, 920, 920, 920, 920, 920, 920, 920, 920, 920, 920, 920, 920, 920, 920, 920, 920,
        920, 920, 920, 920, 920, 920, 920, 920, 920, 920, 920, 920, 920, 920, 920, 920, 920,
        920, 920, 920, 920, 920, 920, 920, 920, 920, 920, 920, 920, 920, 920, 920, 920, 920,
        920, 920, 920, 920, 920, 920, 920, 920, 920, 920, 920, 920, 920, 920, 920, 920, 920,
        920, 920, 920, 920, 920, 920, 920, 920, 920, 920, 920, 920, 920, 920, 920, 920, 920,
        920, 920, 920, 920, 920, 920, 920, 920, 920, 920, 920, 920, 920, 920, 920, 920, 920,
        920, 920, 920, 920, 920, 920, 920, 920, 920, 920, 920, 920, 920, 920, 920, 920, 920,
        920, 920, 920, 920, 920, 920, 920, 920, 920, 920, 920, 920, 920, 920, 920, 920, 920,
        920, 920, 920, 920, 920, 920, 920, 920, 920, 920, 920, 920, 920, 920, 920, 920, 920,
        920, 920, 920, 920, 920, 920, 920, 920, 920, 920, 920, 920, 920, 920, 920, 920, 920,
        920, 920, 920, 920, 920, 920, 920, 920, 920, 920, 920, 920, 920, 920, 920, 920, 920,
        920, 920, 920, 920, 920, 920, 920, 920, 920, 920, 920, 920, 920, 920, 920, 920, 920,
        920, 920, 920, 920, 920, 920, 920, 920, 920, 920, 920, 920, 920, 920, 920, 920, 920,
        920, 920, 920, 920, 920, 920, 920, 920, 920, 920, 920, 920, 920, 920, 920, 920, 920,
        920, 920, 920, 920, 920, 920, 920, 920, 920, 920, 920, 920, 920, 920, 920, 920, 920,
        920, 920, 920, 920, 920, 920, 920, 920, 920, 920, 920, 920, 920, 920, 920, 920, 920,
        920, 920, 920, 920, 920, 920, 920, 920, 920, 920, 920, 920, 920, 920, 920, 920, 920,
        920, 920, 920, 920, 920, 920, 920, 920, 920, 920, 920, 920, 920, 920, 920, 920, 920,
        920, 920, 920, 920, 920, 920, 920, 920, 920, 920, 920, 920, 920, 920, 920, 920, 920,
        920, 920, 920, 920, 920, 920, 920, 920, 920, 920, 920, 920, 920, 920, 920, 920, 920,
        920, 920, 920, 920, 920, 920, 920, 920, 920, 920, 920, 920, 920, 920, 920, 920, 920,
        920, 920, 920, 920, 920, 920, 920, 920, 920, 920, 920, 920, 920, 920, 920, 920, 920,
        920, 920, 920, 920, 920, 920, 920, 920, 920, 920, 920, 920, 920, 920, 920, 920, 920,
        920, 920, 920, 920, 920, 920, 920, 920, 920, 920, 920, 920, 920, 920, 920, 920, 920,
        920, 920, 920, 920, 920, 920, 920, 920, 920, 920, 920, 920, 920, 920, 920, 920, 920,
        920, 920, 920, 920, 920, 920, 920, 920, 920, 920, 920, 920, 920, 920, 920, 920, 920,
        920, 920, 920, 920, 920, 920, 920, 920, 920, 920, 920, 920, 920, 920, 920, 920, 920,
        920, 920, 920, 920, 920, 920, 920, 920, 920, 920, 920, 920, 920, 920, 920, 920, 920,
        920, 920, 920, 920, 920, 920, 920, 920, 920, 920, 920, 920, 920, 920, 920, 920, 920,
        920, 920, 920, 920, 920, 920, 920, 920, 920, 920, 920, 920, 920, 920, 920, 920, 920,
        920, 920, 920, 920, 920, 920, 920, 920, 920, 920, 920, 920, 920, 920, 920, 920, 920,
        920, 920, 920, 920, 920, 920, 920, 920, 920, 920, 920, 920, 920, 920, 920, 920, 920,
        920, 920, 920, 920, 920, 920, 920, 920, 920, 920, 920, 920, 920, 920, 920, 920, 920,
        920, 920, 920, 920, 920, 920, 920, 920, 920, 920, 920, 920, 920, 920, 920, 920, 920,
        920, 920, 920, 920, 920, 920, 920, 920, 920, 920, 920, 920, 920, 920, 920, 920, 920,
        920, 920, 920, 920, 920, 920, 920, 920, 920, 920, 920, 920, 920, 920, 920, 920, 920,
        920, 920, 920, 920, 920, 920, 920, 920, 920, 920, 920, 920, 920, 920, 920, 920, 920,
        920, 920, 920, 920, 920, 920, 920, 920, 920, 920, 920, 920, 920, 920, 920, 920, 920,
        920, 920, 920, 920, 920, 920, 920, 920, 920, 920, 920, 920, 920, 920, 920, 920, 920,
        920, 920, 920, 920, 920, 920, 920, 920, 920, 920, 920, 920, 920, 920, 920, 920, 920,
        920, 920, 920, 920, 920, 920, 920, 920, 920, 920, 920, 920, 920, 920, 920, 920, 920,
        920, 920, 920, 920, 920, 920, 920, 920, 920, 920, 920, 920, 920, 920, 920, 920, 920,
        920, 920, 920, 920, 920, 920, 920, 920, 920, 920, 920, 920, 922, 922, 922, 922, 922,
        922, 922, 922, 922, 922, 922, 922, 922, 922, 922, 922, 922, 922, 922, 922, 922, 922,
        922, 922, 922, 922, 922, 922, 922, 922, 922, 922, 922, 922, 922, 922, 922, 922, 922,
        922, 922, 922, 922, 922, 922, 922, 922, 922, 922, 922, 922, 922, 922, 922, 922, 922,
        922, 922, 922, 922, 922, 922, 922, 922, 922, 922, 922, 922, 922, 922, 922, 922, 922,
        922, 922, 922, 922, 922, 922, 922, 922, 922, 922, 922, 922, 922, 922, 922, 922, 922,
        922, 922, 922, 922, 922, 922, 922, 922, 922, 922, 922, 922, 922, 922, 922, 922, 922,
        922, 922, 922, 922, 922, 922, 922, 922, 922, 922, 922, 922, 922, 922, 922, 922, 922,
        922, 922, 922, 922, 922, 922, 922, 922, 922, 922, 922, 922, 922, 922, 922, 922, 922,
        922, 922, 922, 922, 922, 922, 922, 922, 922, 922, 922, 922, 922, 922, 922, 922, 922,
        922, 922, 922, 922, 922, 922, 922, 922, 922, 922, 922, 922, 922, 922, 922, 922, 922,
        922, 922, 922, 922, 922, 922, 922, 922, 922, 922, 922, 922, 922, 922, 922, 922 >>

\* the full canonical decompositions (Unicode 15.0) but for the Hangul
\* syllables: a row is a code point and its decomposition
CanonicalDecompositions ==
    <<
        <<192, <<65, 768>>>>, <<193, <<65, 769>>>>, <<194, <<65, 770>>>>, <<195, <<65, 771>>>>,
        <<196, <<65, 776>>>>, <<197, <<65, 778>>>>, <<199, <<67, 807>>>>, <<200, <<69, 768>>>>,
        <<201, <<69, 769>>>>, <<202, <<69, 770>>>>, <<203, <<69, 776>>>>, <<204, <<73, 768>>>>,
        <<205, <<73, 769>>>>, <<206, <<73, 770>>>>, <<207, <<73, 776>>>>, <<209, <<78, 771>>>>,
        <<210, <<79, 768>>>>, <<211, <<79, 769>>>>, <<212, <<79, 770>>>>, <<213, <<79, 771>>>>,
        <<214, <<79, 776>>>>, <<217, <<85, 768>>>>, <<218, <<85, 769>>>>, <<219, <<85, 770>>>>,
        <<220, <<85, 776>>>>, <<221, <<89, 769>>>>, <<224, <<97, 768>>>>, <<225, <<97, 769>>>>,
        <<226, <<97, 770>>>>, <<227, <<97, 771>>>>, <<228, <<97, 776>>>>, <<229, <<97, 778>>>>,
        <<231, <<99, 807>>>>, <<232, <<101, 768>>>>, <<233, <<101, 769>>>>,
        <<234, <<101, 770>>>>, <<235, <<101, 776>>>>, <<236, <<105, 768>>>>,
        <<237, <<105, 769>>>>, <<238, <<105, 770>>>>, <<239, <<105, 776>>>>,
        <<241, <<110, 771>>>>, <<242, <<111, 768>>>>, <<243, <<111, 769>>>>,
        <<244, <<111, 770>>>>, <<245, <<111, 771>>>>, <<246, <<111, 776>>>>,
        <<249, <<117, 768>>>>, <<250, <<117, 769>>>>, <<251, <<117, 770>>>>,
        <<252, <<117, 776>>>>, <<253, <<121, 769>>>>, <<255, <<121, 776>>>>,
        <<256, <<65, 772>>>>, <<257, <<97, 772>>>>, <<258, <<65, 774>>>>, <<259, <<97, 774>>>>,
        <<260, <<65, 808>>>>, <<261, <<97, 808>>>>, <<262, <<67, 769>>>>, <<263, <<99, 769>>>>,
        <<264, <<67, 770>>>>, <<265, <<99, 770>>>>, <<266, <<67, 775>>>>, <<267, <<99, 775>>>>,
        <<268, <<67, 780>>>>, <<269, <<99, 780>>>>, <<270, <<68, 780>>>>, <<271, <<100, 780>>>>,
        <<274, <<69, 772>>>>, <<275, <<101, 772>>>>, <<276, <<69, 774>>>>,
        <<277, <<101, 774>>>>, <<278, <<69, 775>>>>, <<279, <<101, 775>>>>,
        <<280, <<69, 808>>>>, <<281, <<101, 808>>>>, <<282, <<69, 780>>>>,
        <<283, <<101, 780>>>>, <<284, <<71, 770>>>>, <<285, <<103, 770>>>>,
        <<286, <<71, 774>>>>, <<287, <<103, 774>>>>, <<288, <<71, 775>>>>,
        <<289, <<103, 775>>>>, <<290, <<71, 807>>>>, <<291, <<103, 807>>>>,
        <<292, <<72, 770>>>>, <<293, <<104, 770>>>>, <<296, <<73, 771>>>>,
        <<297, <<105, 771>>>>, <<298, <<73, 772>>>>, <<299, <<105, 772>>>>,
        <<300, <<73, 774>>>>, <<301, <<105, 774>>>>, <<302, <<73, 808>>>>,
        <<303, <<105, 808>>>>, <<304, <<73, 775>>>>, <<308, <<74, 770>>>>,
        <<309, <<106, 770>>>>, <<310, <<75, 807>>>>, <<311, <<107, 807>>>>,
        <<313, <<76, 769>>>>, <<314, <<108, 769>>>>, <<315, <<76, 807>>>>,
        <<316, <<108, 807>>>>, <<317, <<76, 780>>>>, <<318, <<108, 780>>>>,
        <<323, <<78, 769>>>>, <<324, <<110, 769>>>>, <<325, <<78, 807>>>>,
        <<326, <<110, 807>>>>, <<327, <<78, 780>>>>, <<328, <<110, 780>>>>,
        <<332, <<79, 772>>>>, <<333, <<111, 772>>>>, <<334, <<79, 774>>>>,
        <<335, <<111, 774>>>>, <<336, <<79, 779>>>>, <<337, <<111, 779>>>>,
        <<340, <<82, 769>>>>, <<341, <<114, 769>>>>, <<342, <<82, 807>>>>,
        <<343, <<114, 807>>>>, <<344, <<82, 780>>>>, <<345, <<114, 780>>>>,
        <<346, <<83, 769>>>>, <<347, <<115, 769>>>>, <<348, <<83, 770>>>>,
        <<349, <<115, 770>>>>, <<350, <<83, 807>>>>, <<351, <<115, 807>>>>,
        <<352, <<83, 780>>>>, <<353, <<115, 780>>>>, <<354, <<84, 807>>>>,
        <<355, <<116, 807>>>>, <<356, <<84, 780>>>>, <<357, <<116, 780>>>>,
        <<360, <<85, 771>>>>, <<361, <<117, 771>>>>, <<362, <<85, 772>>>>,
        <<363, <<117, 772>>>>, <<364, <<85, 774>>>>, <<365, <<117, 774>>>>,
        <<366, <<85, 778>>>>, <<367, <<117, 778>>>>, <<368, <<85, 779>>>>,
        <<369, <<117, 779>>>>, <<370, <<85, 808>>>>, <<371, <<117, 808>>>>,
        <<372, <<87, 770>>>>, <<373, <<119, 770>>>>, <<374, <<89, 770>>>>,
        <<375, <<121, 770>>>>, <<376, <<89, 776>>>>, <<377, <<90, 769>>>>,
        <<378, <<122, 769>>>>, <<379, <<90, 775>>>>, <<380, <<122, 775>>>>,
        <<381, <<90, 780>>>>, <<382, <<122, 780>>>>, <<416, <<79, 795>>>>,
        <<417, <<111, 795>>>>, <<431, <<85, 795>>>>, <<432, <<117, 795>>>>,
        <<461, <<65, 780>>>>, <<462, <<97, 780>>>>, <<463, <<73, 780>>>>, <<464, <<105, 780>>>>,
        <<465, <<79, 780>>>>, <<466, <<111, 780>>>>, <<467, <<85, 780>>>>,
        <<468, <<117, 780>>>>, <<469, <<85, 776, 772>>>>, <<470, <<117, 776, 772>>>>,
        <<471, <<85, 776, 769>>>>, <<472, <<117, 776, 769>>>>, <<473, <<85, 776, 780>>>>,
        <<474, <<117, 776, 780>>>>, <<475, <<85, 776, 768>>>>, <<476, <<117, 776, 768>>>>,
        <<478, <<65, 776, 772>>>>, <<479, <<97, 776, 772>>>>, <<480, <<65, 775, 772>>>>,
        <<481, <<97, 775, 772>>>>, <<482, <<198, 772>>>>, <<483, <<230, 772>>>>,
        <<486, <<71, 780>>>>, <<487, <<103, 780>>>>, <<488, <<75, 780>>>>,
        <<489, <<107, 780>>>>, <<490, <<79, 808>>>>, <<491, <<111, 808>>>>,
        <<492, <<79, 808, 772>>>>, <<493, <<111, 808, 772>>>>, <<494, <<439, 780>>>>,
        <<495, <<658, 780>>>>, <<496, <<106, 780>>>>, <<500, <<71, 769>>>>,
        <<501, <<103, 769>>>>, <<504, <<78, 768>>>>, <<505, <<110, 768>>>>,
        <<506, <<65, 778, 769>>>>, <<507, <<97, 778, 769>>>>, <<508, <<198, 769>>>>,
        <<509, <<230, 769>>>>, <<510, <<216, 769>>>>, <<511, <<248, 769>>>>,
        <<512, <<65, 783>>>>, <<513, <<97, 783>>>>, <<514, <<65, 785>>>>, <<515, <<97, 785>>>>,
        <<516, <<69, 783>>>>, <<517, <<101, 783>>>>, <<518, <<69, 785>>>>,
        <<519, <<101, 785>>>>, <<520, <<73, 783>>>>, <<521, <<105, 783>>>>,
        <<522, <<73, 785>>>>, <<523, <<105, 785>>>>, <<524, <<79, 783>>>>,
        <<525, <<111, 783>>>>, <<526, <<79, 785>>>>, <<527, <<111, 785>>>>,
        <<528, <<82, 783>>>>, <<529, <<114, 783>>>>, <<530, <<82, 785>>>>,
        <<531, <<114, 785>>>>, <<532, <<85, 783>>>>, <<533, <<117, 783>>>>,
        <<534, <<85, 785>>>>, <<535, <<117, 785>>>>, <<536, <<83, 806>>>>,
        <<537, <<115, 806>>>>, <<538, <<84, 806>>>>, <<539, <<116, 806>>>>,
        <<542, <<72, 780>>>>, <<543, <<104, 780>>>>, <<550, <<65, 775>>>>, <<551, <<97, 775>>>>,
        <<552, <<69, 807>>>>, <<553, <<101, 807>>>>, <<554, <<79, 776, 772>>>>,
        <<555, <<111, 776, 772>>>>, <<556, <<79, 771, 772>>>>, <<557, <<111, 771, 772>>>>,
        <<558, <<79, 775>>>>, <<559, <<111, 775>>>>, <<560, <<79, 775, 772>>>>,
        <<561, <<111, 775, 772>>>>, <<562, <<89, 772>>>>, <<563, <<121, 772>>>>,
        <<832, <<768>>>>, <<833, <<769>>>>, <<835, <<787>>>>, <<836, <<776, 769>>>>,
        <<884, <<697>>>>, <<894, <<59>>>>, <<901, <<168, 769>>>>, <<902, <<913, 769>>>>,
        <<903, <<183>>>>, <<904, <<917, 769>>>>, <<905, <<919, 769>>>>, <<906, <<921, 769>>>>,
        <<908, <<927, 769>>>>, <<910, <<933, 769>>>>, <<911, <<937, 769>>>>,
        <<912, <<953, 776, 769>>>>, <<938, <<921, 776>>>>, <<939, <<933, 776>>>>,
        <<940, <<945, 769>>>>, <<941, <<949, 769>>>>, <<942, <<951, 769>>>>,
        <<943, <<953, 769>>>>, <<944, <<965, 776, 769>>>>, <<970, <<953, 776>>>>,
        <<971, <<965, 776>>>>, <<972, <<959, 769>>>>, <<973, <<965, 769>>>>,
        <<974, <<969, 769>>>>, <<979, <<978, 769>>>>, <<980, <<978, 776>>>>,
        <<1024, <<1045, 768>>>>, <<1025, <<1045, 776>>>>, <<1027, <<1043, 769>>>>,
        <<1031, <<1030, 776>>>>, <<1036, <<1050, 769>>>>, <<1037, <<1048, 768>>>>,
        <<1038, <<1059, 774>>>>, <<1049, <<1048, 774>>>>, <<1081, <<1080, 774>>>>,
        <<1104, <<1077, 768>>>>, <<1105, <<1077, 776>>>>, <<1107, <<1075, 769>>>>,
        <<1111, <<1110, 776>>>>, <<1116, <<1082, 769>>>>, <<1117, <<1080, 768>>>>,
        <<1118, <<1091, 774>>>>, <<1142, <<1140, 783>>>>, <<1143, <<1141, 783>>>>,
        <<1217, <<1046, 774>>>>, <<1218, <<1078, 774>>>>, <<1232, <<1040, 774>>>>,
        <<1233, <<1072, 774>>>>, <<1234, <<1040, 776>>>>, <<1235, <<1072, 776>>>>,
        <<1238, <<1045, 774>>>>, <<1239, <<1077, 774>>>>, <<1242, <<1240, 776>>>>,
        <<1243, <<1241, 776>>>>, <<1244, <<1046, 776>>>>, <<1245, <<1078, 776>>>>,
        <<1246, <<1047, 776>>>>, <<1247, <<1079, 776>>>>, <<1250, <<1048, 772>>>>,
        <<1251, <<1080, 772>>>>, <<1252, <<1048, 776>>>>, <<1253, <<1080, 776>>>>,
        <<1254, <<1054, 776>>>>, <<1255, <<1086, 776>>>>, <<1258, <<1256, 776>>>>,
        <<1259, <<1257, 776>>>>, <<1260, <<1069, 776>>>>, <<1261, <<1101, 776>>>>,
        <<1262, <<1059, 772>>>>, <<1263, <<1091, 772>>>>, <<1264, <<1059, 776>>>>,
        <<1265, <<1091, 776>>>>, <<1266, <<1059, 779>>>>, <<1267, <<1091, 779>>>>,
        <<1268, <<1063, 776>>>>, <<1269, <<1095, 776>>>>, <<1272, <<1067, 776>>>>,
        <<1273, <<1099, 776>>>>, <<1570, <<1575, 1619>>>>, <<1571, <<1575, 1620>>>>,
        <<1572, <<1608, 1620>>>>, <<1573, <<1575, 1621>>>>, <<1574, <<1610, 1620>>>>,
        <<1728, <<1749, 1620>>>>, <<1730, <<1729, 1620>>>>, <<1747, <<1746, 1620>>>>,
        <<2345, <<2344, 2364>>>>, <<2353, <<2352, 2364>>>>, <<2356, <<2355, 2364>>>>,
        <<2392, <<2325, 2364>>>>, <<2393, <<2326, 2364>>>>, <<2394, <<2327, 2364>>>>,
        <<2395, <<2332, 2364>>>>, <<2396, <<2337, 2364>>>>, <<2397, <<2338, 2364>>>>,
        <<2398, <<2347, 2364>>>>, <<2399, <<2351, 2364>>>>, <<2507, <<2503, 2494>>>>,
        <<2508, <<2503, 2519>>>>, <<2524, <<2465, 2492>>>>, <<2525, <<2466, 2492>>>>,
        <<2527, <<2479, 2492>>>>, <<2611, <<2610, 2620>>>>, <<2614, <<2616, 2620>>>>,
        <<2649, <<2582, 2620>>>>, <<2650, <<2583, 2620>>>>, <<2651, <<2588, 2620>>>>,
        <<2654, <<2603, 2620>>>>, <<2888, <<2887, 2902>>>>, <<2891, <<2887, 2878>>>>,
        <<2892, <<2887, 2903>>>>, <<2908, <<2849, 2876>>>>, <<2909, <<2850, 2876>>>>,
        <<2964, <<2962, 3031>>>>, <<3018, <<3014, 3006>>>>, <<3019, <<3015, 3006>>>>,
        <<3020, <<3014, 3031>>>>, <<3144, <<3142, 3158>>>>, <<3264, <<3263, 3285>>>>,
        <<3271, <<3270, 3285>>>>, <<3272, <<3270, 3286>>>>, <<3274, <<3270, 3266>>>>,
        <<3275, <<3270, 3266, 3285>>>>, <<3402, <<3398, 3390>>>>, <<3403, <<3399, 3390>>>>,
        <<3404, <<3398, 3415>>>>, <<3546, <<3545, 3530>>>>, <<3548, <<3545, 3535>>>>,
        <<3549, <<3545, 3535, 3530>>>>, <<3550, <<3545, 3551>>>>, <<3907, <<3906, 4023>>>>,
        <<3917, <<3916, 4023>>>>, <<3922, <<3921, 4023>>>>, <<3927, <<3926, 4023>>>>,
        <<3932, <<3931, 4023>>>>, <<3945, <<3904, 4021>>>>, <<3955, <<3953, 3954>>>>,
        <<3957, <<3953, 3956>>>>, <<3958, <<4018, 3968>>>>, <<3960, <<4019, 3968>>>>,
        <<3969, <<3953, 3968>>>>, <<3987, <<3986, 4023>>>>, <<3997, <<3996, 4023>>>>,
        <<4002, <<4001, 4023>>>>, <<4007, <<4006, 4023>>>>, <<4012, <<4011, 4023>>>>,
        <<4025, <<3984, 4021>>>>, <<4134, <<4133, 4142>>>>, <<6918, <<6917, 6965>>>>,
        <<6920, <<6919, 6965>>>>, <<6922, <<6921, 6965>>>>, <<6924, <<6923, 6965>>>>,
        <<6926, <<6925, 6965>>>>, <<6930, <<6929, 6965>>>>, <<6971, <<6970, 6965>>>>,
        <<6973, <<6972, 6965>>>>, <<6976, <<6974, 6965>>>>, <<6977, <<6975, 6965>>>>,
        <<6979, <<6978, 6965>>>>, <<7680, <<65, 805>>>>, <<7681, <<97, 805>>>>,
        <<7682, <<66, 775>>>>, <<7683, <<98, 775>>>>, <<7684, <<66, 803>>>>,
        <<7685, <<98, 803>>>>, <<7686, <<66, 817>>>>, <<7687, <<98, 817>>>>,
        <<7688, <<67, 807, 769>>>>, <<7689, <<99, 807, 769>>>>, <<7690, <<68, 775>>>>,
        <<7691, <<100, 775>>>>, <<7692, <<68, 803>>>>, <<7693, <<100, 803>>>>,
        <<7694, <<68, 817>>>>, <<7695, <<100, 817>>>>, <<7696, <<68, 807>>>>,
        <<7697, <<100, 807>>>>, <<7698, <<68, 813>>>>, <<7699, <<100, 813>>>>,
        <<7700, <<69, 772, 768>>>>, <<7701, <<101, 772, 768>>>>, <<7702, <<69, 772, 769>>>>,
        <<7703, <<101, 772, 769>>>>, <<7704, <<69, 813>>>>, <<7705, <<101, 813>>>>,
        <<7706, <<69, 816>>>>, <<7707, <<101, 816>>>>, <<7708, <<69, 807, 774>>>>,
        <<7709, <<101, 807, 774>>>>, <<7710, <<70, 775>>>>, <<7711, <<102, 775>>>>,
        <<7712, <<71, 772>>>>, <<7713, <<103, 772>>>>, <<7714, <<72, 775>>>>,
        <<7715, <<104, 775>>>>, <<7716, <<72, 803>>>>, <<7717, <<104, 803>>>>,
        <<7718, <<72, 776>>>>, <<7719, <<104, 776>>>>, <<7720, <<72, 807>>>>,
        <<7721, <<104, 807>>>>, <<7722, <<72, 814>>>>, <<7723, <<104, 814>>>>,
        <<7724, <<73, 816>>>>, <<7725, <<105, 816>>>>, <<7726, <<73, 776, 769>>>>,
        <<7727, <<105, 776, 769>>>>, <<7728, <<75, 769>>>>, <<7729, <<107, 769>>>>,
        <<7730, <<75, 803>>>>, <<7731, <<107, 803>>>>, <<7732, <<75, 817>>>>,
        <<7733, <<107, 817>>>>, <<7734, <<76, 803>>>>, <<7735, <<108, 803>>>>,
        <<7736, <<76, 803, 772>>>>, <<7737, <<108, 803, 772>>>>, <<7738, <<76, 817>>>>,
        <<7739, <<108, 817>>>>, <<7740, <<76, 813>>>>, <<7741, <<108, 813>>>>,
        <<7742, <<77, 769>>>>, <<7743, <<109, 769>>>>, <<7744, <<77, 775>>>>,
        <<7745, <<109, 775>>>>, <<7746, <<77, 803>>>>, <<7747, <<109, 803>>>>,
        <<7748, <<78, 775>>>>, <<7749, <<110, 775>>>>, <<7750, <<78, 803>>>>,
        <<7751, <<110, 803>>>>, <<7752, <<78, 817>>>>, <<7753, <<110, 817>>>>,
        <<7754, <<78, 813>>>>, <<7755, <<110, 813>>>>, <<7756, <<79, 771, 769>>>>,
        <<7757, <<111, 771, 769>>>>, <<7758, <<79, 771, 776>>>>, <<7759, <<111, 771, 776>>>>,
        <<7760, <<79, 772, 768>>>>, <<7761, <<111, 772, 768>>>>, <<7762, <<79, 772, 769>>>>,
        <<7763, <<111, 772, 769>>>>, <<7764, <<80, 769>>>>, <<7765, <<112, 769>>>>,
        <<7766, <<80, 775>>>>, <<7767, <<112, 775>>>>, <<7768, <<82, 775>>>>,
        <<7769, <<114, 775>>>>, <<7770, <<82, 803>>>>, <<7771, <<114, 803>>>>,
        <<7772, <<82, 803, 772>>>>, <<7773, <<114, 803, 772>>>>, <<7774, <<82, 817>>>>,
        <<7775, <<114, 817>>>>, <<7776, <<83, 775>>>>, <<7777, <<115, 775>>>>,
        <<7778, <<83, 803>>>>, <<7779, <<115, 803>>>>, <<7780, <<83, 769, 775>>>>,
        <<7781, <<115, 769, 775>>>>, <<7782, <<83, 780, 775>>>>, <<7783, <<115, 780, 775>>>>,
        <<7784, <<83, 803, 775>>>>, <<7785, <<115, 803, 775>>>>, <<7786, <<84, 775>>>>,
        <<7787, <<116, 775>>>>, <<7788, <<84, 803>>>>, <<7789, <<116, 803>>>>,
        <<7790, <<84, 817>>>>, <<7791, <<116, 817>>>>, <<7792, <<84, 813>>>>,
        <<7793, <<116, 813>>>>, <<7794, <<85, 804>>>>, <<7795, <<117, 804>>>>,
        <<7796, <<85, 816>>>>, <<7797, <<117, 816>>>>, <<7798, <<85, 813>>>>,
        <<7799, <<117, 813>>>>, <<7800, <<85, 771, 769>>>>, <<7801, <<117, 771, 769>>>>,
        <<7802, <<85, 772, 776>>>>, <<7803, <<117, 772, 776>>>>, <<7804, <<86, 771>>>>,
        <<7805, <<118, 771>>>>, <<7806, <<86, 803>>>>, <<7807, <<118, 803>>>>,
        <<7808, <<87, 768>>>>, <<7809, <<119, 768>>>>, <<7810, <<87, 769>>>>,
        <<7811, <<119, 769>>>>, <<7812, <<87, 776>>>>, <<7813, <<119, 776>>>>,
        <<7814, <<87, 775>>>>, <<7815, <<119, 775>>>>, <<7816, <<87, 803>>>>,
        <<7817, <<119, 803>>>>, <<7818, <<88, 775>>>>, <<7819, <<120, 775>>>>,
        <<7820, <<88, 776>>>>, <<7821, <<120, 776>>>>, <<7822, <<89, 775>>>>,
        <<7823, <<121, 775>>>>, <<7824, <<90, 770>>>>, <<7825, <<122, 770>>>>,
        <<7826, <<90, 803>>>>, <<7827, <<122, 803>>>>, <<7828, <<90, 817>>>>,
        <<7829, <<122, 817>>>>, <<7830, <<104, 817>>>>, <<7831, <<116, 776>>>>,
        <<7832, <<119, 778>>>>, <<7833, <<121, 778>>>>, <<7835, <<383, 775>>>>,
        <<7840, <<65, 803>>>>, <<7841, <<97, 803>>>>, <<7842, <<65, 777>>>>,
        <<7843, <<97, 777>>>>, <<7844, <<65, 770, 769>>>>, <<7845, <<97, 770, 769>>>>,
        <<7846, <<65, 770, 768>>>>, <<7847, <<97, 770, 768>>>>, <<7848, <<65, 770, 777>>>>,
        <<7849, <<97, 770, 777>>>>, <<7850, <<65, 770, 771>>>>, <<7851, <<97, 770, 771>>>>,
        <<7852, <<65, 803, 770>>>>, <<7853, <<97, 803, 770>>>>, <<7854, <<65, 774, 769>>>>,
        <<7855, <<97, 774, 769>>>>, <<7856, <<65, 774, 768>>>>, <<7857, <<97, 774, 768>>>>,
        <<7858, <<65, 774, 777>>>>, <<7859, <<97, 774, 777>>>>, <<7860, <<65, 774, 771>>>>,
        <<7861, <<97, 774, 771>>>>, <<7862, <<65, 803, 774>>>>, <<7863, <<97, 803, 774>>>>,
        <<7864, <<69, 803>>>>, <<7865, <<101, 803>>>>, <<7866, <<69, 777>>>>,
        <<7867, <<101, 777>>>>, <<7868, <<69, 771>>>>, <<7869, <<101, 771>>>>,
        <<7870, <<69, 770, 769>>>>, <<7871, <<101, 770, 769>>>>, <<7872, <<69, 770, 768>>>>,
        <<7873, <<101, 770, 768>>>>, <<7874, <<69, 770, 777>>>>, <<7875, <<101, 770, 777>>>>,
        <<7876, <<69, 770, 771>>>>, <<7877, <<101, 770, 771>>>>, <<7878, <<69, 803, 770>>>>,
        <<7879, <<101, 803, 770>>>>, <<7880, <<73, 777>>>>, <<7881, <<105, 777>>>>,
        <<7882, <<73, 803>>>>, <<7883, <<105, 803>>>>, <<7884, <<79, 803>>>>,
        <<7885, <<111, 803>>>>, <<7886, <<79, 777>>>>, <<7887, <<111, 777>>>>,
        <<7888, <<79, 770, 769>>>>, <<7889, <<111, 770, 769>>>>, <<7890, <<79, 770, 768>>>>,
        <<7891, <<111, 770, 768>>>>, <<7892, <<79, 770, 777>>>>, <<7893, <<111, 770, 777>>>>,
        <<7894, <<79, 770, 771>>>>, <<7895, <<111, 770, 771>>>>, <<7896, <<79, 803, 770>>>>,
        <<7897, <<111, 803, 770>>>>, <<7898, <<79, 795, 769>>>>, <<7899, <<111, 795, 769>>>>,
        <<7900, <<79, 795, 768>>>>, <<7901, <<111, 795, 768>>>>, <<7902, <<79, 795, 777>>>>,
        <<7903, <<111, 795, 777>>>>, <<7904, <<79, 795, 771>>>>, <<7905, <<111, 795, 771>>>>,
        <<7906, <<79, 795, 803>>>>, <<7907, <<111, 795, 803>>>>, <<7908, <<85, 803>>>>,
        <<7909, <<117, 803>>>>, <<7910, <<85, 777>>>>, <<7911, <<117, 777>>>>,
        <<7912, <<85, 795, 769>>>>, <<7913, <<117, 795, 769>>>>, <<7914, <<85, 795, 768>>>>,
        <<7915, <<117, 795, 768>>>>, <<7916, <<85, 795, 777>>>>, <<7917, <<117, 795, 777>>>>,
        <<7918, <<85, 795, 771>>>>, <<7919, <<117, 795, 771>>>>, <<7920, <<85, 795, 803>>>>,
        <<7921, <<117, 795, 803>>>>, <<7922, <<89, 768>>>>, <<7923, <<121, 768>>>>,
        <<7924, <<89, 803>>>>, <<7925, <<121, 803>>>>, <<7926, <<89, 777>>>>,
        <<7927, <<121, 777>>>>, <<7928, <<89, 771>>>>, <<7929, <<121, 771>>>>,
        <<7936, <<945, 787>>>>, <<7937, <<945, 788>>>>, <<7938, <<945, 787, 768>>>>,
        <<7939, <<945, 788, 768>>>>, <<7940, <<945, 787, 769>>>>, <<7941, <<945, 788, 769>>>>,
        <<7942, <<945, 787, 834>>>>, <<7943, <<945, 788, 834>>>>, <<7944, <<913, 787>>>>,
        <<7945, <<913, 788>>>>, <<7946, <<913, 787, 768>>>>, <<7947, <<913, 788, 768>>>>,
        <<7948, <<913, 787, 769>>>>, <<7949, <<913, 788, 769>>>>, <<7950, <<913, 787, 834>>>>,
        <<7951, <<913, 788, 834>>>>, <<7952, <<949, 787>>>>, <<7953, <<949, 788>>>>,
        <<7954, <<949, 787, 768>>>>, <<7955, <<949, 788, 768>>>>, <<7956, <<949, 787, 769>>>>,
        <<7957, <<949, 788, 769>>>>, <<7960, <<917, 787>>>>, <<7961, <<917, 788>>>>,
        <<7962, <<917, 787, 768>>>>, <<7963, <<917, 788, 768>>>>, <<7964, <<917, 787, 769>>>>,
        <<7965, <<917, 788, 769>>>>, <<7968, <<951, 787>>>>, <<7969, <<951, 788>>>>,
        <<7970, <<951, 787, 768>>>>, <<7971, <<951, 788, 768>>>>, <<7972, <<951, 787, 769>>>>,
        <<7973, <<951, 788, 769>>>>, <<7974, <<951, 787, 834>>>>, <<7975, <<951, 788, 834>>>>,
        <<7976, <<919, 787>>>>, <<7977, <<919, 788>>>>, <<7978, <<919, 787, 768>>>>,
        <<7979, <<919, 788, 768>>>>, <<7980, <<919, 787, 769>>>>, <<7981, <<919, 788, 769>>>>,
        <<7982, <<919, 787, 834>>>>, <<7983, <<919, 788, 834>>>>, <<7984, <<953, 787>>>>,
        <<7985, <<953, 788>>>>, <<7986, <<953, 787, 768>>>>, <<7987, <<953, 788, 768>>>>,
        <<7988, <<953, 787, 769>>>>, <<7989, <<953, 788, 769>>>>, <<7990, <<953, 787, 834>>>>,
        <<7991, <<953, 788, 834>>>>, <<7992, <<921, 787>>>>, <<7993, <<921, 788>>>>,
        <<7994, <<921, 787, 768>>>>, <<7995, <<921, 788, 768>>>>, <<7996, <<921, 787, 769>>>>,
        <<7997, <<921, 788, 769>>>>, <<7998, <<921, 787, 834>>>>, <<7999, <<921, 788, 834>>>>,
        <<8000, <<959, 787>>>>, <<8001, <<959, 788>>>>, <<8002, <<959, 787, 768>>>>,
        <<8003, <<959, 788, 768>>>>, <<8004, <<959, 787, 769>>>>, <<8005, <<959, 788, 769>>>>,
        <<8008, <<927, 787>>>>, <<8009, <<927, 788>>>>, <<8010, <<927, 787, 768>>>>,
        <<8011, <<927, 788, 768>>>>, <<8012, <<927, 787, 769>>>>, <<8013, <<927, 788, 769>>>>,
        <<8016, <<965, 787>>>>, <<8017, <<965, 788>>>>, <<8018, <<965, 787, 768>>>>,
        <<8019, <<965, 788, 768>>>>, <<8020, <<965, 787, 769>>>>, <<8021, <<965, 788, 769>>>>,
        <<8022, <<965, 787, 834>>>>, <<8023, <<965, 788, 834>>>>, <<8025, <<933, 788>>>>,
        <<8027, <<933, 788, 768>>>>, <<8029, <<933, 788, 769>>>>, <<8031, <<933, 788, 834>>>>,
        <<8032, <<969, 787>>>>, <<8033, <<969, 788>>>>, <<8034, <<969, 787, 768>>>>,
        <<8035, <<969, 788, 768>>>>, <<8036, <<969, 787, 769>>>>, <<8037, <<969, 788, 769>>>>,
        <<8038, <<969, 787, 834>>>>, <<8039, <<969, 788, 834>>>>, <<8040, <<937, 787>>>>,
        <<8041, <<937, 788>>>>, <<8042, <<937, 787, 768>>>>, <<8043, <<937, 788, 768>>>>,
        <<8044, <<937, 787, 769>>>>, <<8045, <<937, 788, 769>>>>, <<8046, <<937, 787, 834>>>>,
        <<8047, <<937, 788, 834>>>>, <<8048, <<945, 768>>>>, <<8049, <<945, 769>>>>,
        <<8050, <<949, 768>>>>, <<8051, <<949, 769>>>>, <<8052, <<951, 768>>>>,
        <<8053, <<951, 769>>>>, <<8054, <<953, 768>>>>, <<8055, <<953, 769>>>>,
        <<8056, <<959, 768>>>>, <<8057, <<959, 769>>>>, <<8058, <<965, 768>>>>,
        <<8059, <<965, 769>>>>, <<8060, <<969, 768>>>>, <<8061, <<969, 769>>>>,
        <<8064, <<945, 787, 837>>>>, <<8065, <<945, 788, 837>>>>,
        <<8066, <<945, 787, 768, 837>>>>, <<8067, <<945, 788, 768, 837>>>>,
        <<8068, <<945, 787, 769, 837>>>>, <<8069, <<945, 788, 769, 837>>>>,
        <<8070, <<945, 787, 834, 837>>>>, <<8071, <<945, 788, 834, 837>>>>,
        <<8072, <<913, 787, 837>>>>, <<8073, <<913, 788, 837>>>>,
        <<8074, <<913, 787, 768, 837>>>>, <<8075, <<913, 788, 768, 837>>>>,
        <<8076, <<913, 787, 769, 837>>>>, <<8077, <<913, 788, 769, 837>>>>,
        <<8078, <<913, 787, 834, 837>>>>, <<8079, <<913, 788, 834, 837>>>>,
        <<8080, <<951, 787, 837>>>>, <<8081, <<951, 788, 837>>>>,
        <<8082, <<951, 787, 768, 837>>>>, <<8083, <<951, 788, 768, 837>>>>,
        <<8084, <<951, 787, 769, 837>>>>, <<8085, <<951, 788, 769, 837>>>>,
        <<8086, <<951, 787, 834, 837>>>>, <<8087, <<951, 788, 834, 837>>>>,
        <<8088, <<919, 787, 837>>>>, <<8089, <<919, 788, 837>>>>,
        <<8090, <<919, 787, 768, 837>>>>, <<8091, <<919, 788, 768, 837>>>>,
        <<8092, <<919, 787, 769, 837>>>>, <<8093, <<919, 788, 769, 837>>>>,
        <<8094, <<919, 787, 834, 837>>>>, <<8095, <<919, 788, 834, 837>>>>,
        <<8096, <<969, 787, 837>>>>, <<8097, <<969, 788, 837>>>>,
        <<8098, <<969, 787, 768, 837>>>>, <<8099, <<969, 788, 768, 837>>>>,
        <<8100, <<969, 787, 769, 837>>>>, <<8101, <<969, 788, 769, 837>>>>,
        <<8102, <<969, 787, 834, 837>>>>, <<8103, <<969, 788, 834, 837>>>>,
        <<8104, <<937, 787, 837>>>>, <<8105, <<937, 788, 837>>>>,
        <<8106, <<937, 787, 768, 837>>>>, <<8107, <<937, 788, 768, 837>>>>,
        <<8108, <<937, 787, 769, 837>>>>, <<8109, <<937, 788, 769, 837>>>>,
        <<8110, <<937, 787, 834, 837>>>>, <<8111, <<937, 788, 834, 837>>>>,
        <<8112, <<945, 774>>>>, <<8113, <<945, 772>>>>, <<8114, <<945, 768, 837>>>>,
        <<8115, <<945, 837>>>>, <<8116, <<945, 769, 837>>>>, <<8118, <<945, 834>>>>,
        <<8119, <<945, 834, 837>>>>, <<8120, <<913, 774>>>>, <<8121, <<913, 772>>>>,
        <<8122, <<913, 768>>>>, <<8123, <<913, 769>>>>, <<8124, <<913, 837>>>>,
        <<8126, <<953>>>>, <<8129, <<168, 834>>>>, <<8130, <<951, 768, 837>>>>,
        <<8131, <<951, 837>>>>, <<8132, <<951, 769, 837>>>>, <<8134, <<951, 834>>>>,
        <<8135, <<951, 834, 837>>>>, <<8136, <<917, 768>>>>, <<8137, <<917, 769>>>>,
        <<8138, <<919, 768>>>>, <<8139, <<919, 769>>>>, <<8140, <<919, 837>>>>,
        <<8141, <<8127, 768>>>>, <<8142, <<8127, 769>>>>, <<8143, <<8127, 834>>>>,
        <<8144, <<953, 774>>>>, <<8145, <<953, 772>>>>, <<8146, <<953, 776, 768>>>>,
        <<8147, <<953, 776, 769>>>>, <<8150, <<953, 834>>>>, <<8151, <<953, 776, 834>>>>,
        <<8152, <<921, 774>>>>, <<8153, <<921, 772>>>>, <<8154, <<921, 768>>>>,
        <<8155, <<921, 769>>>>, <<8157, <<8190, 768>>>>, <<8158, <<8190, 769>>>>,
        <<8159, <<8190, 834>>>>, <<8160, <<965, 774>>>>, <<8161, <<965, 772>>>>,
        <<8162, <<965, 776, 768>>>>, <<8163, <<965, 776, 769>>>>, <<8164, <<961, 787>>>>,
        <<8165, <<961, 788>>>>, <<8166, <<965, 834>>>>, <<8167, <<965, 776, 834>>>>,
        <<8168, <<933, 774>>>>, <<8169, <<933, 772>>>>, <<8170, <<933, 768>>>>,
        <<8171, <<933, 769>>>>, <<8172, <<929, 788>>>>, <<8173, <<168, 768>>>>,
        <<8174, <<168, 769>>>>, <<8175, <<96>>>>, <<8178, <<969, 768, 837>>>>,
        <<8179, <<969, 837>>>>, <<8180, <<969, 769, 837>>>>, <<8182, <<969, 834>>>>,
        <<8183, <<969, 834, 837>>>>, <<8184, <<927, 768>>>>, <<8185, <<927, 769>>>>,
        <<8186, <<937, 768>>>>, <<8187, <<937, 769>>>>, <<8188, <<937, 837>>>>,
        <<8189, <<180>>>>, <<8192, <<8194>>>>, <<8193, <<8195>>>>, <<8486, <<937>>>>,
        <<8490, <<75>>>>, <<8491, <<65, 778>>>>, <<8602, <<8592, 824>>>>,
        <<8603, <<8594, 824>>>>, <<8622, <<8596, 824>>>>, <<8653, <<8656, 824>>>>,
        <<8654, <<8660, 824>>>>, <<8655, <<8658, 824>>>>, <<8708, <<8707, 824>>>>,
        <<8713, <<8712, 824>>>>, <<8716, <<8715, 824>>>>, <<8740, <<8739, 824>>>>,
        <<8742, <<8741, 824>>>>, <<8769, <<8764, 824>>>>, <<8772, <<8771, 824>>>>,
        <<8775, <<8773, 824>>>>, <<8777, <<8776, 824>>>>, <<8800, <<61, 824>>>>,
        <<8802, <<8801, 824>>>>, <<8813, <<8781, 824>>>>, <<8814, <<60, 824>>>>,
        <<8815, <<62, 824>>>>, <<8816, <<8804, 824>>>>, <<8817, <<8805, 824>>>>,
        <<8820, <<8818, 824>>>>, <<8821, <<8819, 824>>>>, <<8824, <<8822, 824>>>>,
        <<8825, <<8823, 824>>>>, <<8832, <<8826, 824>>>>, <<8833, <<8827, 824>>>>,
        <<8836, <<8834, 824>>>>, <<8837, <<8835, 824>>>>, <<8840, <<8838, 824>>>>,
        <<8841, <<8839, 824>>>>, <<8876, <<8866, 824>>>>, <<8877, <<8872, 824>>>>,
        <<8878, <<8873, 824>>>>, <<8879, <<8875, 824>>>>, <<8928, <<8828, 824>>>>,
        <<8929, <<8829, 824>>>>, <<8930, <<8849, 824>>>>, <<8931, <<8850, 824>>>>,
        <<8938, <<8882, 824>>>>, <<8939, <<8883, 824>>>>, <<8940, <<8884, 824>>>>,
        <<8941, <<8885, 824>>>>, <<9001, <<12296>>>>, <<9002, <<12297>>>>,
        <<10972, <<10973, 824>>>>, <<12364, <<12363, 12441>>>>, <<12366, <<12365, 12441>>>>,
        <<12368, <<12367, 12441>>>>, <<12370, <<12369, 12441>>>>, <<12372, <<12371, 12441>>>>,
        <<12374, <<12373, 12441>>>>, <<12376, <<12375, 12441>>>>, <<12378, <<12377, 12441>>>>,
        <<12380, <<12379, 12441>>>>, <<12382, <<12381, 12441>>>>, <<12384, <<12383, 12441>>>>,
        <<12386, <<12385, 12441>>>>, <<12389, <<12388, 12441>>>>, <<12391, <<12390, 12441>>>>,
        <<12393, <<12392, 12441>>>>, <<12400, <<12399, 12441>>>>, <<12401, <<12399, 12442>>>>,
        <<12403, <<12402, 12441>>>>, <<12404, <<12402, 12442>>>>, <<12406, <<12405, 12441>>>>,
        <<12407, <<12405, 12442>>>>, <<12409, <<12408, 12441>>>>, <<12410, <<12408, 12442>>>>,
        <<12412, <<12411, 12441>>>>, <<12413, <<12411, 12442>>>>, <<12436, <<12358, 12441>>>>,
        <<12446, <<12445, 12441>>>>, <<12460, <<12459, 12441>>>>, <<12462, <<12461, 12441>>>>,
        <<12464, <<12463, 12441>>>>, <<12466, <<12465, 12441>>>>, <<12468, <<12467, 12441>>>>,
        <<12470, <<12469, 12441>>>>, <<12472, <<12471, 12441>>>>, <<12474, <<12473, 12441>>>>,
        <<12476, <<12475, 12441>>>>, <<12478, <<12477, 12441>>>>, <<12480, <<12479, 12441>>>>,
        <<12482, <<12481, 12441>>>>, <<12485, <<12484, 12441>>>>, <<12487, <<12486, 12441>>>>,
        <<12489, <<12488, 12441>>>>, <<12496, <<12495, 12441>>>>, <<12497, <<12495, 12442>>>>,
        <<12499, <<12498, 12441>>>>, <<12500, <<12498, 12442>>>>, <<12502, <<12501, 12441>>>>,
        <<12503, <<12501, 12442>>>>, <<12505, <<12504, 12441>>>>, <<12506, <<12504, 12442>>>>,
        <<12508, <<12507, 12441>>>>, <<12509, <<12507, 12442>>>>, <<12532, <<12454, 12441>>>>,
        <<12535, <<12527, 12441>>>>, <<12536, <<12528, 12441>>>>, <<12537, <<12529, 12441>>>>,
        <<12538, <<12530, 12441>>>>, <<12542, <<12541, 12441>>>>, <<63744, <<35912>>>>,
        <<63745, <<26356>>>>, <<63746, <<36554>>>>, <<63747, <<36040>>>>, <<63748, <<28369>>>>,
        <<63749, <<20018>>>>, <<63750, <<21477>>>>, <<63751, <<40860>>>>, <<63752, <<40860>>>>,
        <<63753, <<22865>>>>, <<63754, <<37329>>>>, <<63755, <<21895>>>>, <<63756, <<22856>>>>,
        <<63757, <<25078>>>>, <<63758, <<30313>>>>, <<63759, <<32645>>>>, <<63760, <<34367>>>>,
        <<63761, <<34746>>>>, <<63762, <<35064>>>>, <<63763, <<37007>>>>, <<63764, <<27138>>>>,
        <<63765, <<27931>>>>, <<63766, <<28889>>>>, <<63767, <<29662>>>>, <<63768, <<33853>>>>,
        <<63769, <<37226>>>>, <<63770, <<39409>>>>, <<63771, <<20098>>>>, <<63772, <<21365>>>>,
        <<63773, <<27396>>>>, <<63774, <<29211>>>>, <<63775, <<34349>>>>, <<63776, <<40478>>>>,
        <<63777, <<23888>>>>, <<63778, <<28651>>>>, <<63779, <<34253>>>>, <<63780, <<35172>>>>,
        <<63781, <<25289>>>>, <<63782, <<33240>>>>, <<63783, <<34847>>>>, <<63784, <<24266>>>>,
        <<63785, <<26391>>>>, <<63786, <<28010>>>>, <<63787, <<29436>>>>, <<63788, <<37070>>>>,
        <<63789, <<20358>>>>, <<63790, <<20919>>>>, <<63791, <<21214>>>>, <<63792, <<25796>>>>,
        <<63793, <<27347>>>>, <<63794, <<29200>>>>, <<63795, <<30439>>>>, <<63796, <<32769>>>>,
        <<63797, <<34310>>>>, <<63798, <<34396>>>>, <<63799, <<36335>>>>, <<63800, <<38706>>>>,
        <<63801, <<39791>>>>, <<63802, <<40442>>>>, <<63803, <<30860>>>>, <<63804, <<31103>>>>,
        <<63805, <<32160>>>>, <<63806, <<33737>>>>, <<63807, <<37636>>>>, <<63808, <<40575>>>>,
        <<63809, <<35542>>>>, <<63810, <<22751>>>>, <<63811, <<24324>>>>, <<63812, <<31840>>>>,
        <<63813, <<32894>>>>, <<63814, <<29282>>>>, <<63815, <<30922>>>>, <<63816, <<36034>>>>,
        <<63817, <<38647>>>>, <<63818, <<22744>>>>, <<63819, <<23650>>>>, <<63820, <<27155>>>>,
        <<63821, <<28122>>>>, <<63822, <<28431>>>>, <<63823, <<32047>>>>, <<63824, <<32311>>>>,
        <<63825, <<38475>>>>, <<63826, <<21202>>>>, <<63827, <<32907>>>>, <<63828, <<20956>>>>,
        <<63829, <<20940>>>>, <<63830, <<31260>>>>, <<63831, <<32190>>>>, <<63832, <<33777>>>>,
        <<63833, <<38517>>>>, <<63834, <<35712>>>>, <<63835, <<25295>>>>, <<63836, <<27138>>>>,
        <<63837, <<35582>>>>, <<63838, <<20025>>>>, <<63839, <<23527>>>>, <<63840, <<24594>>>>,
        <<63841, <<29575>>>>, <<63842, <<30064>>>>, <<63843, <<21271>>>>, <<63844, <<30971>>>>,
        <<63845, <<20415>>>>, <<63846, <<24489>>>>, <<63847, <<19981>>>>, <<63848, <<27852>>>>,
        <<63849, <<25976>>>>, <<63850, <<32034>>>>, <<63851, <<21443>>>>, <<63852, <<22622>>>>,
        <<63853, <<30465>>>>, <<63854, <<33865>>>>, <<63855, <<35498>>>>, <<63856, <<27578>>>>,
        <<63857, <<36784>>>>, <<63858, <<27784>>>>, <<63859, <<25342>>>>, <<63860, <<33509>>>>,
        <<63861, <<25504>>>>, <<63862, <<30053>>>>, <<63863, <<20142>>>>, <<63864, <<20841>>>>,
        <<63865, <<20937>>>>, <<63866, <<26753>>>>, <<63867, <<31975>>>>, <<63868, <<33391>>>>,
        <<63869, <<35538>>>>, <<63870, <<37327>>>>, <<63871, <<21237>>>>, <<63872, <<21570>>>>,
        <<63873, <<22899>>>>, <<63874, <<24300>>>>, <<63875, <<26053>>>>, <<63876, <<28670>>>>,
        <<63877, <<31018>>>>, <<63878, <<38317>>>>, <<63879, <<39530>>>>, <<63880, <<40599>>>>,
        <<63881, <<40654>>>>, <<63882, <<21147>>>>, <<63883, <<26310>>>>, <<63884, <<27511>>>>,
        <<63885, <<36706>>>>, <<63886, <<24180>>>>, <<63887, <<24976>>>>, <<63888, <<25088>>>>,
        <<63889, <<25754>>>>, <<63890, <<28451>>>>, <<63891, <<29001>>>>, <<63892, <<29833>>>>,
        <<63893, <<31178>>>>, <<63894, <<32244>>>>, <<63895, <<32879>>>>, <<63896, <<36646>>>>,
        <<63897, <<34030>>>>, <<63898, <<36899>>>>, <<63899, <<37706>>>>, <<63900, <<21015>>>>,
        <<63901, <<21155>>>>, <<63902, <<21693>>>>, <<63903, <<28872>>>>, <<63904, <<35010>>>>,
        <<63905, <<35498>>>>, <<63906, <<24265>>>>, <<63907, <<24565>>>>, <<63908, <<25467>>>>,
        <<63909, <<27566>>>>, <<63910, <<31806>>>>, <<63911, <<29557>>>>, <<63912, <<20196>>>>,
        <<63913, <<22265>>>>, <<63914, <<23527>>>>, <<63915, <<23994>>>>, <<63916, <<24604>>>>,
        <<63917, <<29618>>>>, <<63918, <<29801>>>>, <<63919, <<32666>>>>, <<63920, <<32838>>>>,
        <<63921, <<37428>>>>, <<63922, <<38646>>>>, <<63923, <<38728>>>>, <<63924, <<38936>>>>,
        <<63925, <<20363>>>>, <<63926, <<31150>>>>, <<63927, <<37300>>>>, <<63928, <<38584>>>>,
        <<63929, <<24801>>>>, <<63930, <<20102>>>>, <<63931, <<20698>>>>, <<63932, <<23534>>>>,
        <<63933, <<23615>>>>, <<63934, <<26009>>>>, <<63935, <<27138>>>>, <<63936, <<29134>>>>,
        <<63937, <<30274>>>>, <<63938, <<34044>>>>, <<63939, <<36988>>>>, <<63940, <<40845>>>>,
        <<63941, <<26248>>>>, <<63942, <<38446>>>>, <<63943, <<21129>>>>, <<63944, <<26491>>>>,
        <<63945, <<26611>>>>, <<63946, <<27969>>>>, <<63947, <<28316>>>>, <<63948, <<29705>>>>,
        <<63949, <<30041>>>>, <<63950, <<30827>>>>, <<63951, <<32016>>>>, <<63952, <<39006>>>>,
        <<63953, <<20845>>>>, <<63954, <<25134>>>>, <<63955, <<38520>>>>, <<63956, <<20523>>>>,
        <<63957, <<23833>>>>, <<63958, <<28138>>>>, <<63959, <<36650>>>>, <<63960, <<24459>>>>,
        <<63961, <<24900>>>>, <<63962, <<26647>>>>, <<63963, <<29575>>>>, <<63964, <<38534>>>>,
        <<63965, <<21033>>>>, <<63966, <<21519>>>>, <<63967, <<23653>>>>, <<63968, <<26131>>>>,
        <<63969, <<26446>>>>, <<63970, <<26792>>>>, <<63971, <<27877>>>>, <<63972, <<29702>>>>,
        <<63973, <<30178>>>>, <<63974, <<32633>>>>, <<63975, <<35023>>>>, <<63976, <<35041>>>>,
        <<63977, <<37324>>>>, <<63978, <<38626>>>>, <<63979, <<21311>>>>, <<63980, <<28346>>>>,
        <<63981, <<21533>>>>, <<63982, <<29136>>>>, <<63983, <<29848>>>>, <<63984, <<34298>>>>,
        <<63985, <<38563>>>>, <<63986, <<40023>>>>, <<63987, <<40607>>>>, <<63988, <<26519>>>>,
        <<63989, <<28107>>>>, <<63990, <<33256>>>>, <<63991, <<31435>>>>, <<63992, <<31520>>>>,
        <<63993, <<31890>>>>, <<63994, <<29376>>>>, <<63995, <<28825>>>>, <<63996, <<35672>>>>,
        <<63997, <<20160>>>>, <<63998, <<33590>>>>, <<63999, <<21050>>>>, <<64000, <<20999>>>>,
        <<64001, <<24230>>>>, <<64002, <<25299>>>>, <<64003, <<31958>>>>, <<64004, <<23429>>>>,
        <<64005, <<27934>>>>, <<64006, <<26292>>>>, <<64007, <<36667>>>>, <<64008, <<34892>>>>,
        <<64009, <<38477>>>>, <<64010, <<35211>>>>, <<64011, <<24275>>>>, <<64012, <<20800>>>>,
        <<64013, <<21952>>>>, <<64016, <<22618>>>>, <<64018, <<26228>>>>, <<64021, <<20958>>>>,
        <<64022, <<29482>>>>, <<64023, <<30410>>>>, <<64024, <<31036>>>>, <<64025, <<31070>>>>,
        <<64026, <<31077>>>>, <<64027, <<31119>>>>, <<64028, <<38742>>>>, <<64029, <<31934>>>>,
        <<64030, <<32701>>>>, <<64032, <<34322>>>>, <<64034, <<35576>>>>, <<64037, <<36920>>>>,
        <<64038, <<37117>>>>, <<64042, <<39151>>>>, <<64043, <<39164>>>>, <<64044, <<39208>>>>,
        <<64045, <<40372>>>>, <<64046, <<37086>>>>, <<64047, <<38583>>>>, <<64048, <<20398>>>>,
        <<64049, <<20711>>>>, <<64050, <<20813>>>>, <<64051, <<21193>>>>, <<64052, <<21220>>>>,
        <<64053, <<21329>>>>, <<64054, <<21917>>>>, <<64055, <<22022>>>>, <<64056, <<22120>>>>,
        <<64057, <<22592>>>>, <<64058, <<22696>>>>, <<64059, <<23652>>>>, <<64060, <<23662>>>>,
        <<64061, <<24724>>>>, <<64062, <<24936>>>>, <<64063, <<24974>>>>, <<64064, <<25074>>>>,
        <<64065, <<25935>>>>, <<64066, <<26082>>>>, <<64067, <<26257>>>>, <<64068, <<26757>>>>,
        <<64069, <<28023>>>>, <<64070, <<28186>>>>, <<64071, <<28450>>>>, <<64072, <<29038>>>>,
        <<64073, <<29227>>>>, <<64074, <<29730>>>>, <<64075, <<30865>>>>, <<64076, <<31038>>>>,
        <<64077, <<31049>>>>, <<64078, <<31048>>>>, <<64079, <<31056>>>>, <<64080, <<31062>>>>,
        <<64081, <<31069>>>>, <<64082, <<31117>>>>, <<64083, <<31118>>>>, <<64084, <<31296>>>>,
        <<64085, <<31361>>>>, <<64086, <<31680>>>>, <<64087, <<32244>>>>, <<64088, <<32265>>>>,
        <<64089, <<32321>>>>, <<64090, <<32626>>>>, <<64091, <<32773>>>>, <<64092, <<33261>>>>,
        <<64093, <<33401>>>>, <<64094, <<33401>>>>, <<64095, <<33879>>>>, <<64096, <<35088>>>>,
        <<64097, <<35222>>>>, <<64098, <<35585>>>>, <<64099, <<35641>>>>, <<64100, <<36051>>>>,
        <<64101, <<36104>>>>, <<64102, <<36790>>>>, <<64103, <<36920>>>>, <<64104, <<38627>>>>,
        <<64105, <<38911>>>>, <<64106, <<38971>>>>, <<64107, <<24693>>>>, <<64108, <<148206>>>>,
        <<64109, <<33304>>>>, <<64112, <<20006>>>>, <<64113, <<20917>>>>, <<64114, <<20840>>>>,
        <<64115, <<20352>>>>, <<64116, <<20805>>>>, <<64117, <<20864>>>>, <<64118, <<21191>>>>,
        <<64119, <<21242>>>>, <<64120, <<21917>>>>, <<64121, <<21845>>>>, <<64122, <<21913>>>>,
        <<64123, <<21986>>>>, <<64124, <<22618>>>>, <<64125, <<22707>>>>, <<64126, <<22852>>>>,
        <<64127, <<22868>>>>, <<64128, <<23138>>>>, <<64129, <<23336>>>>, <<64130, <<24274>>>>,
        <<64131, <<24281>>>>, <<64132, <<24425>>>>, <<64133, <<24493>>>>, <<64134, <<24792>>>>,
        <<64135, <<24910>>>>, <<64136, <<24840>>>>, <<64137, <<24974>>>>, <<64138, <<24928>>>>,
        <<64139, <<25074>>>>, <<64140, <<25140>>>>, <<64141, <<25540>>>>, <<64142, <<25628>>>>,
        <<64143, <<25682>>>>, <<64144, <<25942>>>>, <<64145, <<26228>>>>, <<64146, <<26391>>>>,
        <<64147, <<26395>>>>, <<64148, <<26454>>>>, <<64149, <<27513>>>>, <<64150, <<27578>>>>,
        <<64151, <<27969>>>>, <<64152, <<28379>>>>, <<64153, <<28363>>>>, <<64154, <<28450>>>>,
        <<64155, <<28702>>>>, <<64156, <<29038>>>>, <<64157, <<30631>>>>, <<64158, <<29237>>>>,
        <<64159, <<29359>>>>, <<64160, <<29482>>>>, <<64161, <<29809>>>>, <<64162, <<29958>>>>,
        <<64163, <<30011>>>>, <<64164, <<30237>>>>, <<64165, <<30239>>>>, <<64166, <<30410>>>>,
        <<64167, <<30427>>>>, <<64168, <<30452>>>>, <<64169, <<30538>>>>, <<64170, <<30528>>>>,
        <<64171, <<30924>>>>, <<64172, <<31409>>>>, <<64173, <<31680>>>>, <<64174, <<31867>>>>,
        <<64175, <<32091>>>>, <<64176, <<32244>>>>, <<64177, <<32574>>>>, <<64178, <<32773>>>>,
        <<64179, <<33618>>>>, <<64180, <<33775>>>>, <<64181, <<34681>>>>, <<64182, <<35137>>>>,
        <<64183, <<35206>>>>, <<64184, <<35222>>>>, <<64185, <<35519>>>>, <<64186, <<35576>>>>,
        <<64187, <<35531>>>>, <<64188, <<35585>>>>, <<64189, <<35582>>>>, <<64190, <<35565>>>>,
        <<64191, <<35641>>>>, <<64192, <<35722>>>>, <<64193, <<36104>>>>, <<64194, <<36664>>>>,
        <<64195, <<36978>>>>, <<64196, <<37273>>>>, <<64197, <<37494>>>>, <<64198, <<38524>>>>,
        <<64199, <<38627>>>>, <<64200, <<38742>>>>, <<64201, <<38875>>>>, <<64202, <<38911>>>>,
        <<64203, <<38923>>>>, <<64204, <<38971>>>>, <<64205, <<39698>>>>, <<64206, <<40860>>>>,
        <<64207, <<141386>>>>, <<64208, <<141380>>>>, <<64209, <<144341>>>>,
        <<64210, <<15261>>>>, <<64211, <<16408>>>>, <<64212, <<16441>>>>, <<64213, <<152137>>>>,
        <<64214, <<154832>>>>, <<64215, <<163539>>>>, <<64216, <<40771>>>>,
        <<64217, <<40846>>>>, <<64285, <<1497, 1460>>>>, <<64287, <<1522, 1463>>>>,
        <<64298, <<1513, 1473>>>>, <<64299, <<1513, 1474>>>>, <<64300, <<1513, 1468, 1473>>>>,
        <<64301, <<1513, 1468, 1474>>>>, <<64302, <<1488, 1463>>>>, <<64303, <<1488, 1464>>>>,
        <<64304, <<1488, 1468>>>>, <<64305, <<1489, 1468>>>>, <<64306, <<1490, 1468>>>>,
        <<64307, <<1491, 1468>>>>, <<64308, <<1492, 1468>>>>, <<64309, <<1493, 1468>>>>,
        <<64310, <<1494, 1468>>>>, <<64312, <<1496, 1468>>>>, <<64313, <<1497, 1468>>>>,
        <<64314, <<1498, 1468>>>>, <<64315, <<1499, 1468>>>>, <<64316, <<1500, 1468>>>>,
        <<64318, <<1502, 1468>>>>, <<64320, <<1504, 1468>>>>, <<64321, <<1505, 1468>>>>,
        <<64323, <<1507, 1468>>>>, <<64324, <<1508, 1468>>>>, <<64326, <<1510, 1468>>>>,
        <<64327, <<1511, 1468>>>>, <<64328, <<1512, 1468>>>>, <<64329, <<1513, 1468>>>>,
        <<64330, <<1514, 1468>>>>, <<64331, <<1493, 1465>>>>, <<64332, <<1489, 1471>>>>,
        <<64333, <<1499, 1471>>>>, <<64334, <<1508, 1471>>>>, <<69786, <<69785, 69818>>>>,
        <<69788, <<69787, 69818>>>>, <<69803, <<69797, 69818>>>>, <<69934, <<69937, 69927>>>>,
        <<69935, <<69938, 69927>>>>, <<70475, <<70471, 70462>>>>, <<70476, <<70471, 70487>>>>,
        <<70843, <<70841, 70842>>>>, <<70844, <<70841, 70832>>>>, <<70846, <<70841, 70845>>>>,
        <<71098, <<71096, 71087>>>>, <<71099, <<71097, 71087>>>>, <<71992, <<71989, 71984>>>>,
        <<119134, <<119127, 119141>>>>, <<119135, <<119128, 119141>>>>,
        <<119136, <<119128, 119141, 119150>>>>, <<119137, <<119128, 119141, 119151>>>>,
        <<119138, <<119128, 119141, 119152>>>>, <<119139, <<119128, 119141, 119153>>>>,
        <<119140, <<119128, 119141, 119154>>>>, <<119227, <<119225, 119141>>>>,
        <<119228, <<119226, 119141>>>>, <<119229, <<119225, 119141, 119150>>>>,
        <<119230, <<119226, 119141, 119150>>>>, <<119231, <<119225, 119141, 119151>>>>,
        <<119232, <<119226, 119141, 119151>>>>, <<194560, <<20029>>>>, <<194561, <<20024>>>>,
        <<194562, <<20033>>>>, <<194563, <<131362>>>>, <<194564, <<20320>>>>,
        <<194565, <<20398>>>>, <<194566, <<20411>>>>, <<194567, <<20482>>>>,
        <<194568, <<20602>>>>, <<194569, <<20633>>>>, <<194570, <<20711>>>>,
        <<194571, <<20687>>>>, <<194572, <<13470>>>>, <<194573, <<132666>>>>,
        <<194574, <<20813>>>>, <<194575, <<20820>>>>, <<194576, <<20836>>>>,
        <<194577, <<20855>>>>, <<194578, <<132380>>>>, <<194579, <<13497>>>>,
        <<194580, <<20839>>>>, <<194581, <<20877>>>>, <<194582, <<132427>>>>,
        <<194583, <<20887>>>>, <<194584, <<20900>>>>, <<194585, <<20172>>>>,
        <<194586, <<20908>>>>, <<194587, <<20917>>>>, <<194588, <<168415>>>>,
        <<194589, <<20981>>>>, <<194590, <<20995>>>>, <<194591, <<13535>>>>,
        <<194592, <<21051>>>>, <<194593, <<21062>>>>, <<194594, <<21106>>>>,
        <<194595, <<21111>>>>, <<194596, <<13589>>>>, <<194597, <<21191>>>>,
        <<194598, <<21193>>>>, <<194599, <<21220>>>>, <<194600, <<21242>>>>,
        <<194601, <<21253>>>>, <<194602, <<21254>>>>, <<194603, <<21271>>>>,
        <<194604, <<21321>>>>, <<194605, <<21329>>>>, <<194606, <<21338>>>>,
        <<194607, <<21363>>>>, <<194608, <<21373>>>>, <<194609, <<21375>>>>,
        <<194610, <<21375>>>>, <<194611, <<21375>>>>, <<194612, <<133676>>>>,
        <<194613, <<28784>>>>, <<194614, <<21450>>>>, <<194615, <<21471>>>>,
        <<194616, <<133987>>>>, <<194617, <<21483>>>>, <<194618, <<21489>>>>,
        <<194619, <<21510>>>>, <<194620, <<21662>>>>, <<194621, <<21560>>>>,
        <<194622, <<21576>>>>, <<194623, <<21608>>>>, <<194624, <<21666>>>>,
        <<194625, <<21750>>>>, <<194626, <<21776>>>>, <<194627, <<21843>>>>,
        <<194628, <<21859>>>>, <<194629, <<21892>>>>, <<194630, <<21892>>>>,
        <<194631, <<21913>>>>, <<194632, <<21931>>>>, <<194633, <<21939>>>>,
        <<194634, <<21954>>>>, <<194635, <<22294>>>>, <<194636, <<22022>>>>,
        <<194637, <<22295>>>>, <<194638, <<22097>>>>, <<194639, <<22132>>>>,
        <<194640, <<20999>>>>, <<194641, <<22766>>>>, <<194642, <<22478>>>>,
        <<194643, <<22516>>>>, <<194644, <<22541>>>>, <<194645, <<22411>>>>,
        <<194646, <<22578>>>>, <<194647, <<22577>>>>, <<194648, <<22700>>>>,
        <<194649, <<136420>>>>, <<194650, <<22770>>>>, <<194651, <<22775>>>>,
        <<194652, <<22790>>>>, <<194653, <<22810>>>>, <<194654, <<22818>>>>,
        <<194655, <<22882>>>>, <<194656, <<136872>>>>, <<194657, <<136938>>>>,
        <<194658, <<23020>>>>, <<194659, <<23067>>>>, <<194660, <<23079>>>>,
        <<194661, <<23000>>>>, <<194662, <<23142>>>>, <<194663, <<14062>>>>,
        <<194664, <<14076>>>>, <<194665, <<23304>>>>, <<194666, <<23358>>>>,
        <<194667, <<23358>>>>, <<194668, <<137672>>>>, <<194669, <<23491>>>>,
        <<194670, <<23512>>>>, <<194671, <<23527>>>>, <<194672, <<23539>>>>,
        <<194673, <<138008>>>>, <<194674, <<23551>>>>, <<194675, <<23558>>>>,
        <<194676, <<24403>>>>, <<194677, <<23586>>>>, <<194678, <<14209>>>>,
        <<194679, <<23648>>>>, <<194680, <<23662>>>>, <<194681, <<23744>>>>,
        <<194682, <<23693>>>>, <<194683, <<138724>>>>, <<194684, <<23875>>>>,
        <<194685, <<138726>>>>, <<194686, <<23918>>>>, <<194687, <<23915>>>>,
        <<194688, <<23932>>>>, <<194689, <<24033>>>>, <<194690, <<24034>>>>,
        <<194691, <<14383>>>>, <<194692, <<24061>>>>, <<194693, <<24104>>>>,
        <<194694, <<24125>>>>, <<194695, <<24169>>>>, <<194696, <<14434>>>>,
        <<194697, <<139651>>>>, <<194698, <<14460>>>>, <<194699, <<24240>>>>,
        <<194700, <<24243>>>>, <<194701, <<24246>>>>, <<194702, <<24266>>>>,
        <<194703, <<172946>>>>, <<194704, <<24318>>>>, <<194705, <<140081>>>>,
        <<194706, <<140081>>>>, <<194707, <<33281>>>>, <<194708, <<24354>>>>,
        <<194709, <<24354>>>>, <<194710, <<14535>>>>, <<194711, <<144056>>>>,
        <<194712, <<156122>>>>, <<194713, <<24418>>>>, <<194714, <<24427>>>>,
        <<194715, <<14563>>>>, <<194716, <<24474>>>>, <<194717, <<24525>>>>,
        <<194718, <<24535>>>>, <<194719, <<24569>>>>, <<194720, <<24705>>>>,
        <<194721, <<14650>>>>, <<194722, <<14620>>>>, <<194723, <<24724>>>>,
        <<194724, <<141012>>>>, <<194725, <<24775>>>>, <<194726, <<24904>>>>,
        <<194727, <<24908>>>>, <<194728, <<24910>>>>, <<194729, <<24908>>>>,
        <<194730, <<24954>>>>, <<194731, <<24974>>>>, <<194732, <<25010>>>>,
        <<194733, <<24996>>>>, <<194734, <<25007>>>>, <<194735, <<25054>>>>,
        <<194736, <<25074>>>>, <<194737, <<25078>>>>, <<194738, <<25104>>>>,
        <<194739, <<25115>>>>, <<194740, <<25181>>>>, <<194741, <<25265>>>>,
        <<194742, <<25300>>>>, <<194743, <<25424>>>>, <<194744, <<142092>>>>,
        <<194745, <<25405>>>>, <<194746, <<25340>>>>, <<194747, <<25448>>>>,
        <<194748, <<25475>>>>, <<194749, <<25572>>>>, <<194750, <<142321>>>>,
        <<194751, <<25634>>>>, <<194752, <<25541>>>>, <<194753, <<25513>>>>,
        <<194754, <<14894>>>>, <<194755, <<25705>>>>, <<194756, <<25726>>>>,
        <<194757, <<25757>>>>, <<194758, <<25719>>>>, <<194759, <<14956>>>>,
        <<194760, <<25935>>>>, <<194761, <<25964>>>>, <<194762, <<143370>>>>,
        <<194763, <<26083>>>>, <<194764, <<26360>>>>, <<194765, <<26185>>>>,
        <<194766, <<15129>>>>, <<194767, <<26257>>>>, <<194768, <<15112>>>>,
        <<194769, <<15076>>>>, <<194770, <<20882>>>>, <<194771, <<20885>>>>,
        <<194772, <<26368>>>>, <<194773, <<26268>>>>, <<194774, <<32941>>>>,
        <<194775, <<17369>>>>, <<194776, <<26391>>>>, <<194777, <<26395>>>>,
        <<194778, <<26401>>>>, <<194779, <<26462>>>>, <<194780, <<26451>>>>,
        <<194781, <<144323>>>>, <<194782, <<15177>>>>, <<194783, <<26618>>>>,
        <<194784, <<26501>>>>, <<194785, <<26706>>>>, <<194786, <<26757>>>>,
        <<194787, <<144493>>>>, <<194788, <<26766>>>>, <<194789, <<26655>>>>,
        <<194790, <<26900>>>>, <<194791, <<15261>>>>, <<194792, <<26946>>>>,
        <<194793, <<27043>>>>, <<194794, <<27114>>>>, <<194795, <<27304>>>>,
        <<194796, <<145059>>>>, <<194797, <<27355>>>>, <<194798, <<15384>>>>,
        <<194799, <<27425>>>>, <<194800, <<145575>>>>, <<194801, <<27476>>>>,
        <<194802, <<15438>>>>, <<194803, <<27506>>>>, <<194804, <<27551>>>>,
        <<194805, <<27578>>>>, <<194806, <<27579>>>>, <<194807, <<146061>>>>,
        <<194808, <<138507>>>>, <<194809, <<146170>>>>, <<194810, <<27726>>>>,
        <<194811, <<146620>>>>, <<194812, <<27839>>>>, <<194813, <<27853>>>>,
        <<194814, <<27751>>>>, <<194815, <<27926>>>>, <<194816, <<27966>>>>,
        <<194817, <<28023>>>>, <<194818, <<27969>>>>, <<194819, <<28009>>>>,
        <<194820, <<28024>>>>, <<194821, <<28037>>>>, <<194822, <<146718>>>>,
        <<194823, <<27956>>>>, <<194824, <<28207>>>>, <<194825, <<28270>>>>,
        <<194826, <<15667>>>>, <<194827, <<28363>>>>, <<194828, <<28359>>>>,
        <<194829, <<147153>>>>, <<194830, <<28153>>>>, <<194831, <<28526>>>>,
        <<194832, <<147294>>>>, <<194833, <<147342>>>>, <<194834, <<28614>>>>,
        <<194835, <<28729>>>>, <<194836, <<28702>>>>, <<194837, <<28699>>>>,
        <<194838, <<15766>>>>, <<194839, <<28746>>>>, <<194840, <<28797>>>>,
        <<194841, <<28791>>>>, <<194842, <<28845>>>>, <<194843, <<132389>>>>,
        <<194844, <<28997>>>>, <<194845, <<148067>>>>, <<194846, <<29084>>>>,
        <<194847, <<148395>>>>, <<194848, <<29224>>>>, <<194849, <<29237>>>>,
        <<194850, <<29264>>>>, <<194851, <<149000>>>>, <<194852, <<29312>>>>,
        <<194853, <<29333>>>>, <<194854, <<149301>>>>, <<194855, <<149524>>>>,
        <<194856, <<29562>>>>, <<194857, <<29579>>>>, <<194858, <<16044>>>>,
        <<194859, <<29605>>>>, <<194860, <<16056>>>>, <<194861, <<16056>>>>,
        <<194862, <<29767>>>>, <<194863, <<29788>>>>, <<194864, <<29809>>>>,
        <<194865, <<29829>>>>, <<194866, <<29898>>>>, <<194867, <<16155>>>>,
        <<194868, <<29988>>>>, <<194869, <<150582>>>>, <<194870, <<30014>>>>,
        <<194871, <<150674>>>>, <<194872, <<30064>>>>, <<194873, <<139679>>>>,
        <<194874, <<30224>>>>, <<194875, <<151457>>>>, <<194876, <<151480>>>>,
        <<194877, <<151620>>>>, <<194878, <<16380>>>>, <<194879, <<16392>>>>,
        <<194880, <<30452>>>>, <<194881, <<151795>>>>, <<194882, <<151794>>>>,
        <<194883, <<151833>>>>, <<194884, <<151859>>>>, <<194885, <<30494>>>>,
        <<194886, <<30495>>>>, <<194887, <<30495>>>>, <<194888, <<30538>>>>,
        <<194889, <<16441>>>>, <<194890, <<30603>>>>, <<194891, <<16454>>>>,
        <<194892, <<16534>>>>, <<194893, <<152605>>>>, <<194894, <<30798>>>>,
        <<194895, <<30860>>>>, <<194896, <<30924>>>>, <<194897, <<16611>>>>,
        <<194898, <<153126>>>>, <<194899, <<31062>>>>, <<194900, <<153242>>>>,
        <<194901, <<153285>>>>, <<194902, <<31119>>>>, <<194903, <<31211>>>>,
        <<194904, <<16687>>>>, <<194905, <<31296>>>>, <<194906, <<31306>>>>,
        <<194907, <<31311>>>>, <<194908, <<153980>>>>, <<194909, <<154279>>>>,
        <<194910, <<154279>>>>, <<194911, <<31470>>>>, <<194912, <<16898>>>>,
        <<194913, <<154539>>>>, <<194914, <<31686>>>>, <<194915, <<31689>>>>,
        <<194916, <<16935>>>>, <<194917, <<154752>>>>, <<194918, <<31954>>>>,
        <<194919, <<17056>>>>, <<194920, <<31976>>>>, <<194921, <<31971>>>>,
        <<194922, <<32000>>>>, <<194923, <<155526>>>>, <<194924, <<32099>>>>,
        <<194925, <<17153>>>>, <<194926, <<32199>>>>, <<194927, <<32258>>>>,
        <<194928, <<32325>>>>, <<194929, <<17204>>>>, <<194930, <<156200>>>>,
        <<194931, <<156231>>>>, <<194932, <<17241>>>>, <<194933, <<156377>>>>,
        <<194934, <<32634>>>>, <<194935, <<156478>>>>, <<194936, <<32661>>>>,
        <<194937, <<32762>>>>, <<194938, <<32773>>>>, <<194939, <<156890>>>>,
        <<194940, <<156963>>>>, <<194941, <<32864>>>>, <<194942, <<157096>>>>,
        <<194943, <<32880>>>>, <<194944, <<144223>>>>, <<194945, <<17365>>>>,
        <<194946, <<32946>>>>, <<194947, <<33027>>>>, <<194948, <<17419>>>>,
        <<194949, <<33086>>>>, <<194950, <<23221>>>>, <<194951, <<157607>>>>,
        <<194952, <<157621>>>>, <<194953, <<144275>>>>, <<194954, <<144284>>>>,
        <<194955, <<33281>>>>, <<194956, <<33284>>>>, <<194957, <<36766>>>>,
        <<194958, <<17515>>>>, <<194959, <<33425>>>>, <<194960, <<33419>>>>,
        <<194961, <<33437>>>>, <<194962, <<21171>>>>, <<194963, <<33457>>>>,
        <<194964, <<33459>>>>, <<194965, <<33469>>>>, <<194966, <<33510>>>>,
        <<194967, <<158524>>>>, <<194968, <<33509>>>>, <<194969, <<33565>>>>,
        <<194970, <<33635>>>>, <<194971, <<33709>>>>, <<194972, <<33571>>>>,
        <<194973, <<33725>>>>, <<194974, <<33767>>>>, <<194975, <<33879>>>>,
        <<194976, <<33619>>>>, <<194977, <<33738>>>>, <<194978, <<33740>>>>,
        <<194979, <<33756>>>>, <<194980, <<158774>>>>, <<194981, <<159083>>>>,
        <<194982, <<158933>>>>, <<194983, <<17707>>>>, <<194984, <<34033>>>>,
        <<194985, <<34035>>>>, <<194986, <<34070>>>>, <<194987, <<160714>>>>,
        <<194988, <<34148>>>>, <<194989, <<159532>>>>, <<194990, <<17757>>>>,
        <<194991, <<17761>>>>, <<194992, <<159665>>>>, <<194993, <<159954>>>>,
        <<194994, <<17771>>>>, <<194995, <<34384>>>>, <<194996, <<34396>>>>,
        <<194997, <<34407>>>>, <<194998, <<34409>>>>, <<194999, <<34473>>>>,
        <<195000, <<34440>>>>, <<195001, <<34574>>>>, <<195002, <<34530>>>>,
        <<195003, <<34681>>>>, <<195004, <<34600>>>>, <<195005, <<34667>>>>,
        <<195006, <<34694>>>>, <<195007, <<17879>>>>, <<195008, <<34785>>>>,
        <<195009, <<34817>>>>, <<195010, <<17913>>>>, <<195011, <<34912>>>>,
        <<195012, <<34915>>>>, <<195013, <<161383>>>>, <<195014, <<35031>>>>,
        <<195015, <<35038>>>>, <<195016, <<17973>>>>, <<195017, <<35066>>>>,
        <<195018, <<13499>>>>, <<195019, <<161966>>>>, <<195020, <<162150>>>>,
        <<195021, <<18110>>>>, <<195022, <<18119>>>>, <<195023, <<35488>>>>,
        <<195024, <<35565>>>>, <<195025, <<35722>>>>, <<195026, <<35925>>>>,
        <<195027, <<162984>>>>, <<195028, <<36011>>>>, <<195029, <<36033>>>>,
        <<195030, <<36123>>>>, <<195031, <<36215>>>>, <<195032, <<163631>>>>,
        <<195033, <<133124>>>>, <<195034, <<36299>>>>, <<195035, <<36284>>>>,
        <<195036, <<36336>>>>, <<195037, <<133342>>>>, <<195038, <<36564>>>>,
        <<195039, <<36664>>>>, <<195040, <<165330>>>>, <<195041, <<165357>>>>,
        <<195042, <<37012>>>>, <<195043, <<37105>>>>, <<195044, <<37137>>>>,
        <<195045, <<165678>>>>, <<195046, <<37147>>>>, <<195047, <<37432>>>>,
        <<195048, <<37591>>>>, <<195049, <<37592>>>>, <<195050, <<37500>>>>,
        <<195051, <<37881>>>>, <<195052, <<37909>>>>, <<195053, <<166906>>>>,
        <<195054, <<38283>>>>, <<195055, <<18837>>>>, <<195056, <<38327>>>>,
        <<195057, <<167287>>>>, <<195058, <<18918>>>>, <<195059, <<38595>>>>,
        <<195060, <<23986>>>>, <<195061, <<38691>>>>, <<195062, <<168261>>>>,
        <<195063, <<168474>>>>, <<195064, <<19054>>>>, <<195065, <<19062>>>>,
        <<195066, <<38880>>>>, <<195067, <<168970>>>>, <<195068, <<19122>>>>,
        <<195069, <<169110>>>>, <<195070, <<38923>>>>, <<195071, <<38923>>>>,
        <<195072, <<38953>>>>, <<195073, <<169398>>>>, <<195074, <<39138>>>>,
        <<195075, <<19251>>>>, <<195076, <<39209>>>>, <<195077, <<39335>>>>,
        <<195078, <<39362>>>>, <<195079, <<39422>>>>, <<195080, <<19406>>>>,
        <<195081, <<170800>>>>, <<195082, <<39698>>>>, <<195083, <<40000>>>>,
        <<195084, <<40189>>>>, <<195085, <<19662>>>>, <<195086, <<19693>>>>,
        <<195087, <<40295>>>>, <<195088, <<172238>>>>, <<195089, <<19704>>>>,
        <<195090, <<172293>>>>, <<195091, <<172558>>>>, <<195092, <<172689>>>>,
        <<195093, <<40635>>>>, <<195094, <<19798>>>>, <<195095, <<40697>>>>,
        <<195096, <<40702>>>>, <<195097, <<40709>>>>, <<195098, <<40719>>>>,
        <<195099, <<40726>>>>, <<195100, <<40763>>>>, <<195101, <<173568>>>> >>

\* for each block of 1024 code points of CanonicalDecompositions, from U+0000 on: the number
\* of the last row that begins at or before the first code point of the block,
\* 0 for none
DecompositionIndex ==
    <<
        0, 283, 342, 373, 403, 404, 404, 415, 890, 940, 940, 941, 941, 999, 999, 999, 999, 999,
        999, 999, 999, 999, 999, 999, 999, 999, 999, 999, 999, 999, 999, 999, 999, 999, 999,
        999, 999, 999, 999, 999, 999, 999, 999, 999, 999, 999, 999, 999, 999, 999, 999, 999,
        999, 999, 999, 999, 999, 999, 999, 999, 999, 999, 999, 1493, 1493, 1493, 1493, 1493,
        1493, 1500, 1505, 1506, 1506, 1506, 1506, 1506, 1506, 1506, 1506, 1506, 1506, 1506,
        1506, 1506, 1506, 1506, 1506, 1506, 1506, 1506, 1506, 1506, 1506, 1506, 1506, 1506,
        1506, 1506, 1506, 1506, 1506, 1506, 1506, 1506, 1506, 1506, 1506, 1506, 1506, 1506,
        1506, 1506, 1506, 1506, 1506, 1506, 1506, 1519, 1519, 1519, 1519, 1519, 1519, 1519,
        1519, 1519, 1519, 1519, 1519, 1519, 1519, 1519, 1519, 1519, 1519, 1519, 1519, 1519,
        1519, 1519, 1519, 1519, 1519, 1519, 1519, 1519, 1519, 1519, 1519, 1519, 1519, 1519,
        1519, 1519, 1519, 1519, 1519, 1519, 1519, 1519, 1519, 1519, 1519, 1519, 1519, 1519,
        1519, 1519, 1519, 1519, 1519, 1519, 1519, 1519, 1519, 1519, 1519, 1519, 1519, 1519,
        1519, 1519, 1519, 1519, 1519, 1519, 1519, 1519, 1519, 1519, 1520, 2061, 2061, 2061,
        2061, 2061, 2061, 2061, 2061, 2061, 2061, 2061, 2061, 2061, 2061, 2061, 2061, 2061,
        2061, 2061, 2061, 2061, 2061, 2061, 2061, 2061, 2061, 2061, 2061, 2061, 2061, 2061,
        2061, 2061, 2061, 2061, 2061, 2061, 2061, 2061, 2061, 2061, 2061, 2061, 2061, 2061,
        2061, 2061, 2061, 2061, 2061, 2061, 2061, 2061, 2061, 2061, 2061, 2061, 2061, 2061,
        2061, 2061, 2061, 2061, 2061, 2061, 2061, 2061, 2061, 2061, 2061, 2061, 2061, 2061,
        2061, 2061, 2061, 2061, 2061, 2061, 2061, 2061, 2061, 2061, 2061, 2061, 2061, 2061,
        2061, 2061, 2061, 2061, 2061, 2061, 2061, 2061, 2061, 2061, 2061, 2061, 2061, 2061,
        2061, 2061, 2061, 2061, 2061, 2061, 2061, 2061, 2061, 2061, 2061, 2061, 2061, 2061,
        2061, 2061, 2061, 2061, 2061, 2061, 2061, 2061, 2061, 2061, 2061, 2061, 2061, 2061,
        2061, 2061, 2061, 2061, 2061, 2061, 2061, 2061, 2061, 2061, 2061, 2061, 2061, 2061,
        2061, 2061, 2061, 2061, 2061, 2061, 2061, 2061, 2061, 2061, 2061, 2061, 2061, 2061,
        2061, 2061, 2061, 2061, 2061, 2061, 2061, 2061, 2061, 2061, 2061, 2061, 2061, 2061,
        2061, 2061, 2061, 2061, 2061, 2061, 2061, 2061, 2061, 2061, 2061, 2061, 2061, 2061,
        2061, 2061, 2061, 2061, 2061, 2061, 2061, 2061, 2061, 2061, 2061, 2061, 2061, 2061,
        2061, 2061, 2061, 2061, 2061, 2061, 2061, 2061, 2061, 2061, 2061, 2061, 2061, 2061,
        2061, 2061, 2061, 2061, 2061, 2061, 2061, 2061, 2061, 2061, 2061, 2061, 2061, 2061,
        2061, 2061, 2061, 2061, 2061, 2061, 2061, 2061, 2061, 2061, 2061, 2061, 2061, 2061,
        2061, 2061, 2061, 2061, 2061, 2061, 2061, 2061, 2061, 2061, 2061, 2061, 2061, 2061,
        2061, 2061, 2061, 2061, 2061, 2061, 2061, 2061, 2061, 2061, 2061, 2061, 2061, 2061,
        2061, 2061, 2061, 2061, 2061, 2061, 2061, 2061, 2061, 2061, 2061, 2061, 2061, 2061,
        2061, 2061, 2061, 2061, 2061, 2061, 2061, 2061, 2061, 2061, 2061, 2061, 2061, 2061,
        2061, 2061, 2061, 2061, 2061, 2061, 2061, 2061, 2061, 2061, 2061, 2061, 2061, 2061,
        2061, 2061, 2061, 2061, 2061, 2061, 2061, 2061, 2061, 2061, 2061, 2061, 2061, 2061,
        2061, 2061, 2061, 2061, 2061, 2061, 2061, 2061, 2061, 2061, 2061, 2061, 2061, 2061,
        2061, 2061, 2061, 2061, 2061, 2061, 2061, 2061, 2061, 2061, 2061, 2061, 2061, 2061,
        2061, 2061, 2061, 2061, 2061, 2061, 2061, 2061, 2061, 2061, 2061, 2061, 2061, 2061,
        2061, 2061, 2061, 2061, 2061, 2061, 2061, 2061, 2061, 2061, 2061, 2061, 2061, 2061,
        2061, 2061, 2061, 2061, 2061, 2061, 2061, 2061, 2061, 2061, 2061, 2061, 2061, 2061,
        2061, 2061, 2061, 2061, 2061, 2061, 2061, 2061, 2061, 2061, 2061, 2061, 2061, 2061,
        2061, 2061, 2061, 2061, 2061, 2061, 2061, 2061, 2061, 2061, 2061, 2061, 2061, 2061,
        2061, 2061, 2061, 2061, 2061, 2061, 2061, 2061, 2061, 2061, 2061, 2061, 2061, 2061,
        2061, 2061, 2061, 2061, 2061, 2061, 2061, 2061, 2061, 2061, 2061, 2061, 2061, 2061,
        2061, 2061, 2061, 2061, 2061, 2061, 2061, 2061, 2061, 2061, 2061, 2061, 2061, 2061,
        2061, 2061, 2061, 2061, 2061, 2061, 2061, 2061, 2061, 2061, 2061, 2061, 2061, 2061,
        2061, 2061, 2061, 2061, 2061, 2061, 2061, 2061, 2061, 2061, 2061, 2061, 2061, 2061,
        2061, 2061, 2061, 2061, 2061, 2061, 2061, 2061, 2061, 2061, 2061, 2061, 2061, 2061,
        2061, 2061, 2061, 2061, 2061, 2061, 2061, 2061, 2061, 2061, 2061, 2061, 2061, 2061,
        2061, 2061, 2061, 2061, 2061, 2061, 2061, 2061, 2061, 2061, 2061, 2061, 2061, 2061,
        2061, 2061, 2061, 2061, 2061, 2061, 2061, 2061, 2061, 2061, 2061, 2061, 2061, 2061,
        2061, 2061, 2061, 2061, 2061, 2061, 2061, 2061, 2061, 2061, 2061, 2061, 2061, 2061,
        2061, 2061, 2061, 2061, 2061, 2061, 2061, 2061, 2061, 2061, 2061, 2061, 2061, 2061,
        2061, 2061, 2061, 2061, 2061, 2061, 2061, 2061, 2061, 2061, 2061, 2061, 2061, 2061,
        2061, 2061, 2061, 2061, 2061, 2061, 2061, 2061, 2061, 2061, 2061, 2061, 2061, 2061,
        2061, 2061, 2061, 2061, 2061, 2061, 2061, 2061, 2061, 2061, 2061, 2061, 2061, 2061,
        2061, 2061, 2061, 2061, 2061, 2061, 2061, 2061, 2061, 2061, 2061, 2061, 2061, 2061,
        2061, 2061, 2061, 2061, 2061, 2061, 2061, 2061, 2061, 2061, 2061, 2061, 2061, 2061,
        2061, 2061, 2061, 2061, 2061, 2061, 2061, 2061, 2061, 2061, 2061, 2061, 2061, 2061,
        2061, 2061, 2061, 2061, 2061, 2061, 2061, 2061, 2061, 2061, 2061, 2061, 2061, 2061,
        2061, 2061, 2061, 2061, 2061, 2061, 2061, 2061, 2061, 2061, 2061, 2061, 2061, 2061,
        2061, 2061, 2061, 2061, 2061, 2061, 2061, 2061, 2061, 2061, 2061, 2061, 2061, 2061,
        2061, 2061, 2061, 2061, 2061, 2061, 2061, 2061, 2061, 2061, 2061, 2061, 2061, 2061,
        2061, 2061, 2061, 2061, 2061, 2061, 2061, 2061, 2061, 2061, 2061, 2061, 2061, 2061,
        2061, 2061, 2061, 2061, 2061, 2061, 2061, 2061, 2061, 2061, 2061, 2061, 2061, 2061,
        2061, 2061, 2061, 2061, 2061, 2061, 2061, 2061, 2061, 2061, 2061, 2061, 2061, 2061,
        2061, 2061, 2061, 2061, 2061, 2061, 2061, 2061, 2061, 2061, 2061, 2061, 2061, 2061,
        2061, 2061, 2061, 2061, 2061, 2061, 2061, 2061, 2061, 2061, 2061, 2061, 2061, 2061,
        2061, 2061, 2061, 2061, 2061, 2061, 2061, 2061, 2061, 2061, 2061, 2061, 2061, 2061,
        2061, 2061, 2061, 2061, 2061, 2061, 2061, 2061, 2061, 2061, 2061, 2061, 2061, 2061,
        2061, 2061, 2061, 2061, 2061, 2061, 2061, 2061, 2061, 2061, 2061, 2061, 2061, 2061,
        2061, 2061, 2061, 2061, 2061, 2061, 2061, 2061, 2061, 2061, 2061, 2061, 2061, 2061,
        2061, 2061, 2061, 2061, 2061, 2061, 2061, 2061, 2061, 2061, 2061, 2061, 2061, 2061,
        2061, 2061, 2061, 2061, 2061, 2061, 2061, 2061, 2061, 2061, 2061, 2061, 2061, 2061,
        2061, 2061, 2061, 2061, 2061, 2061, 2061, 2061, 2061, 2061, 2061, 2061, 2061, 2061,
        2061, 2061, 2061, 2061, 2061, 2061, 2061, 2061, 2061, 2061, 2061, 2061 >>

\* the primary composites (Unicode 15.0) but for the Hangul syllables: a row is
\* a first code point and the pairs <<second code point, composite>> it has
CanonicalCompositions ==
    <<
        <<60, <<<<824, 8814>>>>>>, <<61, <<<<824, 8800>>>>>>, <<62, <<<<824, 8815>>>>>>,
        <<65, <<<<768, 192>>, <<769, 193>>, <<770, 194>>, <<771, 195>>, <<772, 256>>, <<774, 258>>, <<775, 550>>, <<776, 196>>, <<777, 7842>>, <<778, 197>>, <<780, 461>>, <<783, 512>>, <<785, 514>>, <<803, 7840>>, <<805, 7680>>, <<808, 260>>>>>>,
        <<66, <<<<775, 7682>>, <<803, 7684>>, <<817, 7686>>>>>>,
        <<67, <<<<769, 262>>, <<770, 264>>, <<775, 266>>, <<780, 268>>, <<807, 199>>>>>>,
        <<68, <<<<775, 7690>>, <<780, 270>>, <<803, 7692>>, <<807, 7696>>, <<813, 7698>>, <<817, 7694>>>>>>,
        <<69, <<<<768, 200>>, <<769, 201>>, <<770, 202>>, <<771, 7868>>, <<772, 274>>, <<774, 276>>, <<775, 278>>, <<776, 203>>, <<777, 7866>>, <<780, 282>>, <<783, 516>>, <<785, 518>>, <<803, 7864>>, <<807, 552>>, <<808, 280>>, <<813, 7704>>, <<816, 7706>>>>>>,
        <<70, <<<<775, 7710>>>>>>,
        <<71, <<<<769, 500>>, <<770, 284>>, <<772, 7712>>, <<774, 286>>, <<775, 288>>, <<780, 486>>, <<807, 290>>>>>>,
        <<72, <<<<770, 292>>, <<775, 7714>>, <<776, 7718>>, <<780, 542>>, <<803, 7716>>, <<807, 7720>>, <<814, 7722>>>>>>,
        <<73, <<<<768, 204>>, <<769, 205>>, <<770, 206>>, <<771, 296>>, <<772, 298>>, <<774, 300>>, <<775, 304>>, <<776, 207>>, <<777, 7880>>, <<780, 463>>, <<783, 520>>, <<785, 522>>, <<803, 7882>>, <<808, 302>>, <<816, 7724>>>>>>,
        <<74, <<<<770, 308>>>>>>,
        <<75, <<<<769, 7728>>, <<780, 488>>, <<803, 7730>>, <<807, 310>>, <<817, 7732>>>>>>,
        <<76, <<<<769, 313>>, <<780, 317>>, <<803, 7734>>, <<807, 315>>, <<813, 7740>>, <<817, 7738>>>>>>,
        <<77, <<<<769, 7742>>, <<775, 7744>>, <<803, 7746>>>>>>,
        <<78, <<<<768, 504>>, <<769, 323>>, <<771, 209>>, <<775, 7748>>, <<780, 327>>, <<803, 7750>>, <<807, 325>>, <<813, 7754>>, <<817, 7752>>>>>>,
        <<79, <<<<768, 210>>, <<769, 211>>, <<770, 212>>, <<771, 213>>, <<772, 332>>, <<774, 334>>, <<775, 558>>, <<776, 214>>, <<777, 7886>>, <<779, 336>>, <<780, 465>>, <<783, 524>>, <<785, 526>>, <<795, 416>>, <<803, 7884>>, <<808, 490>>>>>>,
        <<80, <<<<769, 7764>>, <<775, 7766>>>>>>,
        <<82, <<<<769, 340>>, <<775, 7768>>, <<780, 344>>, <<783, 528>>, <<785, 530>>, <<803, 7770>>, <<807, 342>>, <<817, 7774>>>>>>,
        <<83, <<<<769, 346>>, <<770, 348>>, <<775, 7776>>, <<780, 352>>, <<803, 7778>>, <<806, 536>>, <<807, 350>>>>>>,
        <<84, <<<<775, 7786>>, <<780, 356>>, <<803, 7788>>, <<806, 538>>, <<807, 354>>, <<813, 7792>>, <<817, 7790>>>>>>,
        <<85, <<<<768, 217>>, <<769, 218>>, <<770, 219>>, <<771, 360>>, <<772, 362>>, <<774, 364>>, <<776, 220>>, <<777, 7910>>, <<778, 366>>, <<779, 368>>, <<780, 467>>, <<783, 532>>, <<785, 534>>, <<795, 431>>, <<803, 7908>>, <<804, 7794>>, <<808, 370>>, <<813, 7798>>, <<816, 7796>>>>>>,
        <<86, <<<<771, 7804>>, <<803, 7806>>>>>>,
        <<87, <<<<768, 7808>>, <<769, 7810>>, <<770, 372>>, <<775, 7814>>, <<776, 7812>>, <<803, 7816>>>>>>,
        <<88, <<<<775, 7818>>, <<776, 7820>>>>>>,
        <<89, <<<<768, 7922>>, <<769, 221>>, <<770, 374>>, <<771, 7928>>, <<772, 562>>, <<775, 7822>>, <<776, 376>>, <<777, 7926>>, <<803, 7924>>>>>>,
        <<90, <<<<769, 377>>, <<770, 7824>>, <<775, 379>>, <<780, 381>>, <<803, 7826>>, <<817, 7828>>>>>>,
        <<97, <<<<768, 224>>, <<769, 225>>, <<770, 226>>, <<771, 227>>, <<772, 257>>, <<774, 259>>, <<775, 551>>, <<776, 228>>, <<777, 7843>>, <<778, 229>>, <<780, 462>>, <<783, 513>>, <<785, 515>>, <<803, 7841>>, <<805, 7681>>, <<808, 261>>>>>>,
        <<98, <<<<775, 7683>>, <<803, 7685>>, <<817, 7687>>>>>>,
        <<99, <<<<769, 263>>, <<770, 265>>, <<775, 267>>, <<780, 269>>, <<807, 231>>>>>>,
        <<100, <<<<775, 7691>>, <<780, 271>>, <<803, 7693>>, <<807, 7697>>, <<813, 7699>>, <<817, 7695>>>>>>,
        <<101, <<<<768, 232>>, <<769, 233>>, <<770, 234>>, <<771, 7869>>, <<772, 275>>, <<774, 277>>, <<775, 279>>, <<776, 235>>, <<777, 7867>>, <<780, 283>>, <<783, 517>>, <<785, 519>>, <<803, 7865>>, <<807, 553>>, <<808, 281>>, <<813, 7705>>, <<816, 7707>>>>>>,
        <<102, <<<<775, 7711>>>>>>,
        <<103, <<<<769, 501>>, <<770, 285>>, <<772, 7713>>, <<774, 287>>, <<775, 289>>, <<780, 487>>, <<807, 291>>>>>>,
        <<104, <<<<770, 293>>, <<775, 7715>>, <<776, 7719>>, <<780, 543>>, <<803, 7717>>, <<807, 7721>>, <<814, 7723>>, <<817, 7830>>>>>>,
        <<105, <<<<768, 236>>, <<769, 237>>, <<770, 238>>, <<771, 297>>, <<772, 299>>, <<774, 301>>, <<776, 239>>, <<777, 7881>>, <<780, 464>>, <<783, 521>>, <<785, 523>>, <<803, 7883>>, <<808, 303>>, <<816, 7725>>>>>>,
        <<106, <<<<770, 309>>, <<780, 496>>>>>>,
        <<107, <<<<769, 7729>>, <<780, 489>>, <<803, 7731>>, <<807, 311>>, <<817, 7733>>>>>>,
        <<108, <<<<769, 314>>, <<780, 318>>, <<803, 7735>>, <<807, 316>>, <<813, 7741>>, <<817, 7739>>>>>>,
        <<109, <<<<769, 7743>>, <<775, 7745>>, <<803, 7747>>>>>>,
        <<110, <<<<768, 505>>, <<769, 324>>, <<771, 241>>, <<775, 7749>>, <<780, 328>>, <<803, 7751>>, <<807, 326>>, <<813, 7755>>, <<817, 7753>>>>>>,
        <<111, <<<<768, 242>>, <<769, 243>>, <<770, 244>>, <<771, 245>>, <<772, 333>>, <<774, 335>>, <<775, 559>>, <<776, 246>>, <<777, 7887>>, <<779, 337>>, <<780, 466>>, <<783, 525>>, <<785, 527>>, <<795, 417>>, <<803, 7885>>, <<808, 491>>>>>>,
        <<112, <<<<769, 7765>>, <<775, 7767>>>>>>,
        <<114, <<<<769, 341>>, <<775, 7769>>, <<780, 345>>, <<783, 529>>, <<785, 531>>, <<803, 7771>>, <<807, 343>>, <<817, 7775>>>>>>,
        <<115, <<<<769, 347>>, <<770, 349>>, <<775, 7777>>, <<780, 353>>, <<803, 7779>>, <<806, 537>>, <<807, 351>>>>>>,
        <<116, <<<<775, 7787>>, <<776, 7831>>, <<780, 357>>, <<803, 7789>>, <<806, 539>>, <<807, 355>>, <<813, 7793>>, <<817, 7791>>>>>>,
        <<117, <<<<768, 249>>, <<769, 250>>, <<770, 251>>, <<771, 361>>, <<772, 363>>, <<774, 365>>, <<776, 252>>, <<777, 7911>>, <<778, 367>>, <<779, 369>>, <<780, 468>>, <<783, 533>>, <<785, 535>>, <<795, 432>>, <<803, 7909>>, <<804, 7795>>, <<808, 371>>, <<813, 7799>>, <<816, 7797>>>>>>,
        <<118, <<<<771, 7805>>, <<803, 7807>>>>>>,
        <<119, <<<<768, 7809>>, <<769, 7811>>, <<770, 373>>, <<775, 7815>>, <<776, 7813>>, <<778, 7832>>, <<803, 7817>>>>>>,
        <<120, <<<<775, 7819>>, <<776, 7821>>>>>>,
        <<121, <<<<768, 7923>>, <<769, 253>>, <<770, 375>>, <<771, 7929>>, <<772, 563>>, <<775, 7823>>, <<776, 255>>, <<777, 7927>>, <<778, 7833>>, <<803, 7925>>>>>>,
        <<122, <<<<769, 378>>, <<770, 7825>>, <<775, 380>>, <<780, 382>>, <<803, 7827>>, <<817, 7829>>>>>>,
        <<168, <<<<768, 8173>>, <<769, 901>>, <<834, 8129>>>>>>,
        <<194, <<<<768, 7846>>, <<769, 7844>>, <<771, 7850>>, <<777, 7848>>>>>>,
        <<196, <<<<772, 478>>>>>>, <<197, <<<<769, 506>>>>>>,
        <<198, <<<<769, 508>>, <<772, 482>>>>>>, <<199, <<<<769, 7688>>>>>>,
        <<202, <<<<768, 7872>>, <<769, 7870>>, <<771, 7876>>, <<777, 7874>>>>>>,
        <<207, <<<<769, 7726>>>>>>,
        <<212, <<<<768, 7890>>, <<769, 7888>>, <<771, 7894>>, <<777, 7892>>>>>>,
        <<213, <<<<769, 7756>>, <<772, 556>>, <<776, 7758>>>>>>, <<214, <<<<772, 554>>>>>>,
        <<216, <<<<769, 510>>>>>>,
        <<220, <<<<768, 475>>, <<769, 471>>, <<772, 469>>, <<780, 473>>>>>>,
        <<226, <<<<768, 7847>>, <<769, 7845>>, <<771, 7851>>, <<777, 7849>>>>>>,
        <<228, <<<<772, 479>>>>>>, <<229, <<<<769, 507>>>>>>,
        <<230, <<<<769, 509>>, <<772, 483>>>>>>, <<231, <<<<769, 7689>>>>>>,
        <<234, <<<<768, 7873>>, <<769, 7871>>, <<771, 7877>>, <<777, 7875>>>>>>,
        <<239, <<<<769, 7727>>>>>>,
        <<244, <<<<768, 7891>>, <<769, 7889>>, <<771, 7895>>, <<777, 7893>>>>>>,
        <<245, <<<<769, 7757>>, <<772, 557>>, <<776, 7759>>>>>>, <<246, <<<<772, 555>>>>>>,
        <<248, <<<<769, 511>>>>>>,
        <<252, <<<<768, 476>>, <<769, 472>>, <<772, 470>>, <<780, 474>>>>>>,
        <<258, <<<<768, 7856>>, <<769, 7854>>, <<771, 7860>>, <<777, 7858>>>>>>,
        <<259, <<<<768, 7857>>, <<769, 7855>>, <<771, 7861>>, <<777, 7859>>>>>>,
        <<274, <<<<768, 7700>>, <<769, 7702>>>>>>, <<275, <<<<768, 7701>>, <<769, 7703>>>>>>,
        <<332, <<<<768, 7760>>, <<769, 7762>>>>>>, <<333, <<<<768, 7761>>, <<769, 7763>>>>>>,
        <<346, <<<<775, 7780>>>>>>, <<347, <<<<775, 7781>>>>>>, <<352, <<<<775, 7782>>>>>>,
        <<353, <<<<775, 7783>>>>>>, <<360, <<<<769, 7800>>>>>>, <<361, <<<<769, 7801>>>>>>,
        <<362, <<<<776, 7802>>>>>>, <<363, <<<<776, 7803>>>>>>, <<383, <<<<775, 7835>>>>>>,
        <<416, <<<<768, 7900>>, <<769, 7898>>, <<771, 7904>>, <<777, 7902>>, <<803, 7906>>>>>>,
        <<417, <<<<768, 7901>>, <<769, 7899>>, <<771, 7905>>, <<777, 7903>>, <<803, 7907>>>>>>,
        <<431, <<<<768, 7914>>, <<769, 7912>>, <<771, 7918>>, <<777, 7916>>, <<803, 7920>>>>>>,
        <<432, <<<<768, 7915>>, <<769, 7913>>, <<771, 7919>>, <<777, 7917>>, <<803, 7921>>>>>>,
        <<439, <<<<780, 494>>>>>>, <<490, <<<<772, 492>>>>>>, <<491, <<<<772, 493>>>>>>,
        <<550, <<<<772, 480>>>>>>, <<551, <<<<772, 481>>>>>>, <<552, <<<<774, 7708>>>>>>,
        <<553, <<<<774, 7709>>>>>>, <<558, <<<<772, 560>>>>>>, <<559, <<<<772, 561>>>>>>,
        <<658, <<<<780, 495>>>>>>,
        <<913, <<<<768, 8122>>, <<769, 902>>, <<772, 8121>>, <<774, 8120>>, <<787, 7944>>, <<788, 7945>>, <<837, 8124>>>>>>,
        <<917, <<<<768, 8136>>, <<769, 904>>, <<787, 7960>>, <<788, 7961>>>>>>,
        <<919, <<<<768, 8138>>, <<769, 905>>, <<787, 7976>>, <<788, 7977>>, <<837, 8140>>>>>>,
        <<921, <<<<768, 8154>>, <<769, 906>>, <<772, 8153>>, <<774, 8152>>, <<776, 938>>, <<787, 7992>>, <<788, 7993>>>>>>,
        <<927, <<<<768, 8184>>, <<769, 908>>, <<787, 8008>>, <<788, 8009>>>>>>,
        <<929, <<<<788, 8172>>>>>>,
        <<933, <<<<768, 8170>>, <<769, 910>>, <<772, 8169>>, <<774, 8168>>, <<776, 939>>, <<788, 8025>>>>>>,
        <<937, <<<<768, 8186>>, <<769, 911>>, <<787, 8040>>, <<788, 8041>>, <<837, 8188>>>>>>,
        <<940, <<<<837, 8116>>>>>>, <<942, <<<<837, 8132>>>>>>,
        <<945, <<<<768, 8048>>, <<769, 940>>, <<772, 8113>>, <<774, 8112>>, <<787, 7936>>, <<788, 7937>>, <<834, 8118>>, <<837, 8115>>>>>>,
        <<949, <<<<768, 8050>>, <<769, 941>>, <<787, 7952>>, <<788, 7953>>>>>>,
        <<951, <<<<768, 8052>>, <<769, 942>>, <<787, 7968>>, <<788, 7969>>, <<834, 8134>>, <<837, 8131>>>>>>,
        <<953, <<<<768, 8054>>, <<769, 943>>, <<772, 8145>>, <<774, 8144>>, <<776, 970>>, <<787, 7984>>, <<788, 7985>>, <<834, 8150>>>>>>,
        <<959, <<<<768, 8056>>, <<769, 972>>, <<787, 8000>>, <<788, 8001>>>>>>,
        <<961, <<<<787, 8164>>, <<788, 8165>>>>>>,
        <<965, <<<<768, 8058>>, <<769, 973>>, <<772, 8161>>, <<774, 8160>>, <<776, 971>>, <<787, 8016>>, <<788, 8017>>, <<834, 8166>>>>>>,
        <<969, <<<<768, 8060>>, <<769, 974>>, <<787, 8032>>, <<788, 8033>>, <<834, 8182>>, <<837, 8179>>>>>>,
        <<970, <<<<768, 8146>>, <<769, 912>>, <<834, 8151>>>>>>,
        <<971, <<<<768, 8162>>, <<769, 944>>, <<834, 8167>>>>>>, <<974, <<<<837, 8180>>>>>>,
        <<978, <<<<769, 979>>, <<776, 980>>>>>>, <<1030, <<<<776, 1031>>>>>>,
        <<1040, <<<<774, 1232>>, <<776, 1234>>>>>>, <<1043, <<<<769, 1027>>>>>>,
        <<1045, <<<<768, 1024>>, <<774, 1238>>, <<776, 1025>>>>>>,
        <<1046, <<<<774, 1217>>, <<776, 1244>>>>>>, <<1047, <<<<776, 1246>>>>>>,
        <<1048, <<<<768, 1037>>, <<772, 1250>>, <<774, 1049>>, <<776, 1252>>>>>>,
        <<1050, <<<<769, 1036>>>>>>, <<1054, <<<<776, 1254>>>>>>,
        <<1059, <<<<772, 1262>>, <<774, 1038>>, <<776, 1264>>, <<779, 1266>>>>>>,
        <<1063, <<<<776, 1268>>>>>>, <<1067, <<<<776, 1272>>>>>>, <<1069, <<<<776, 1260>>>>>>,
        <<1072, <<<<774, 1233>>, <<776, 1235>>>>>>, <<1075, <<<<769, 1107>>>>>>,
        <<1077, <<<<768, 1104>>, <<774, 1239>>, <<776, 1105>>>>>>,
        <<1078, <<<<774, 1218>>, <<776, 1245>>>>>>, <<1079, <<<<776, 1247>>>>>>,
        <<1080, <<<<768, 1117>>, <<772, 1251>>, <<774, 1081>>, <<776, 1253>>>>>>,
        <<1082, <<<<769, 1116>>>>>>, <<1086, <<<<776, 1255>>>>>>,
        <<1091, <<<<772, 1263>>, <<774, 1118>>, <<776, 1265>>, <<779, 1267>>>>>>,
        <<1095, <<<<776, 1269>>>>>>, <<1099, <<<<776, 1273>>>>>>, <<1101, <<<<776, 1261>>>>>>,
        <<1110, <<<<776, 1111>>>>>>, <<1140, <<<<783, 1142>>>>>>, <<1141, <<<<783, 1143>>>>>>,
        <<1240, <<<<776, 1242>>>>>>, <<1241, <<<<776, 1243>>>>>>, <<1256, <<<<776, 1258>>>>>>,
        <<1257, <<<<776, 1259>>>>>>,
        <<1575, <<<<1619, 1570>>, <<1620, 1571>>, <<1621, 1573>>>>>>,
        <<1608, <<<<1620, 1572>>>>>>, <<1610, <<<<1620, 1574>>>>>>,
        <<1729, <<<<1620, 1730>>>>>>, <<1746, <<<<1620, 1747>>>>>>,
        <<1749, <<<<1620, 1728>>>>>>, <<2344, <<<<2364, 2345>>>>>>,
        <<2352, <<<<2364, 2353>>>>>>, <<2355, <<<<2364, 2356>>>>>>,
        <<2503, <<<<2494, 2507>>, <<2519, 2508>>>>>>,
        <<2887, <<<<2878, 2891>>, <<2902, 2888>>, <<2903, 2892>>>>>>,
        <<2962, <<<<3031, 2964>>>>>>, <<3014, <<<<3006, 3018>>, <<3031, 3020>>>>>>,
        <<3015, <<<<3006, 3019>>>>>>, <<3142, <<<<3158, 3144>>>>>>,
        <<3263, <<<<3285, 3264>>>>>>,
        <<3270, <<<<3266, 3274>>, <<3285, 3271>>, <<3286, 3272>>>>>>,
        <<3274, <<<<3285, 3275>>>>>>, <<3398, <<<<3390, 3402>>, <<3415, 3404>>>>>>,
        <<3399, <<<<3390, 3403>>>>>>,
        <<3545, <<<<3530, 3546>>, <<3535, 3548>>, <<3551, 3550>>>>>>,
        <<3548, <<<<3530, 3549>>>>>>, <<4133, <<<<4142, 4134>>>>>>,
        <<6917, <<<<6965, 6918>>>>>>, <<6919, <<<<6965, 6920>>>>>>,
        <<6921, <<<<6965, 6922>>>>>>, <<6923, <<<<6965, 6924>>>>>>,
        <<6925, <<<<6965, 6926>>>>>>, <<6929, <<<<6965, 6930>>>>>>,
        <<6970, <<<<6965, 6971>>>>>>, <<6972, <<<<6965, 6973>>>>>>,
        <<6974, <<<<6965, 6976>>>>>>, <<6975, <<<<6965, 6977>>>>>>,
        <<6978, <<<<6965, 6979>>>>>>, <<7734, <<<<772, 7736>>>>>>, <<7735, <<<<772, 7737>>>>>>,
        <<7770, <<<<772, 7772>>>>>>, <<7771, <<<<772, 7773>>>>>>, <<7778, <<<<775, 7784>>>>>>,
        <<7779, <<<<775, 7785>>>>>>, <<7840, <<<<770, 7852>>, <<774, 7862>>>>>>,
        <<7841, <<<<770, 7853>>, <<774, 7863>>>>>>, <<7864, <<<<770, 7878>>>>>>,
        <<7865, <<<<770, 7879>>>>>>, <<7884, <<<<770, 7896>>>>>>, <<7885, <<<<770, 7897>>>>>>,
        <<7936, <<<<768, 7938>>, <<769, 7940>>, <<834, 7942>>, <<837, 8064>>>>>>,
        <<7937, <<<<768, 7939>>, <<769, 7941>>, <<834, 7943>>, <<837, 8065>>>>>>,
        <<7938, <<<<837, 8066>>>>>>, <<7939, <<<<837, 8067>>>>>>, <<7940, <<<<837, 8068>>>>>>,
        <<7941, <<<<837, 8069>>>>>>, <<7942, <<<<837, 8070>>>>>>, <<7943, <<<<837, 8071>>>>>>,
        <<7944, <<<<768, 7946>>, <<769, 7948>>, <<834, 7950>>, <<837, 8072>>>>>>,
        <<7945, <<<<768, 7947>>, <<769, 7949>>, <<834, 7951>>, <<837, 8073>>>>>>,
        <<7946, <<<<837, 8074>>>>>>, <<7947, <<<<837, 8075>>>>>>, <<7948, <<<<837, 8076>>>>>>,
        <<7949, <<<<837, 8077>>>>>>, <<7950, <<<<837, 8078>>>>>>, <<7951, <<<<837, 8079>>>>>>,
        <<7952, <<<<768, 7954>>, <<769, 7956>>>>>>, <<7953, <<<<768, 7955>>, <<769, 7957>>>>>>,
        <<7960, <<<<768, 7962>>, <<769, 7964>>>>>>, <<7961, <<<<768, 7963>>, <<769, 7965>>>>>>,
        <<7968, <<<<768, 7970>>, <<769, 7972>>, <<834, 7974>>, <<837, 8080>>>>>>,
        <<7969, <<<<768, 7971>>, <<769, 7973>>, <<834, 7975>>, <<837, 8081>>>>>>,
        <<7970, <<<<837, 8082>>>>>>, <<7971, <<<<837, 8083>>>>>>, <<7972, <<<<837, 8084>>>>>>,
        <<7973, <<<<837, 8085>>>>>>, <<7974, <<<<837, 8086>>>>>>, <<7975, <<<<837, 8087>>>>>>,
        <<7976, <<<<768, 7978>>, <<769, 7980>>, <<834, 7982>>, <<837, 8088>>>>>>,
        <<7977, <<<<768, 7979>>, <<769, 7981>>, <<834, 7983>>, <<837, 8089>>>>>>,
        <<7978, <<<<837, 8090>>>>>>, <<7979, <<<<837, 8091>>>>>>, <<7980, <<<<837, 8092>>>>>>,
        <<7981, <<<<837, 8093>>>>>>, <<7982, <<<<837, 8094>>>>>>, <<7983, <<<<837, 8095>>>>>>,
        <<7984, <<<<768, 7986>>, <<769, 7988>>, <<834, 7990>>>>>>,
        <<7985, <<<<768, 7987>>, <<769, 7989>>, <<834, 7991>>>>>>,
        <<7992, <<<<768, 7994>>, <<769, 7996>>, <<834, 7998>>>>>>,
        <<7993, <<<<768, 7995>>, <<769, 7997>>, <<834, 7999>>>>>>,
        <<8000, <<<<768, 8002>>, <<769, 8004>>>>>>, <<8001, <<<<768, 8003>>, <<769, 8005>>>>>>,
        <<8008, <<<<768, 8010>>, <<769, 8012>>>>>>, <<8009, <<<<768, 8011>>, <<769, 8013>>>>>>,
        <<8016, <<<<768, 8018>>, <<769, 8020>>, <<834, 8022>>>>>>,
        <<8017, <<<<768, 8019>>, <<769, 8021>>, <<834, 8023>>>>>>,
        <<8025, <<<<768, 8027>>, <<769, 8029>>, <<834, 8031>>>>>>,
        <<8032, <<<<768, 8034>>, <<769, 8036>>, <<834, 8038>>, <<837, 8096>>>>>>,
        <<8033, <<<<768, 8035>>, <<769, 8037>>, <<834, 8039>>, <<837, 8097>>>>>>,
        <<8034, <<<<837, 8098>>>>>>, <<8035, <<<<837, 8099>>>>>>, <<8036, <<<<837, 8100>>>>>>,
        <<8037, <<<<837, 8101>>>>>>, <<8038, <<<<837, 8102>>>>>>, <<8039, <<<<837, 8103>>>>>>,
        <<8040, <<<<768, 8042>>, <<769, 8044>>, <<834, 8046>>, <<837, 8104>>>>>>,
        <<8041, <<<<768, 8043>>, <<769, 8045>>, <<834, 8047>>, <<837, 8105>>>>>>,
        <<8042, <<<<837, 8106>>>>>>, <<8043, <<<<837, 8107>>>>>>, <<8044, <<<<837, 8108>>>>>>,
        <<8045, <<<<837, 8109>>>>>>, <<8046, <<<<837, 8110>>>>>>, <<8047, <<<<837, 8111>>>>>>,
        <<8048, <<<<837, 8114>>>>>>, <<8052, <<<<837, 8130>>>>>>, <<8060, <<<<837, 8178>>>>>>,
        <<8118, <<<<837, 8119>>>>>>, <<8127, <<<<768, 8141>>, <<769, 8142>>, <<834, 8143>>>>>>,
        <<8134, <<<<837, 8135>>>>>>, <<8182, <<<<837, 8183>>>>>>,
        <<8190, <<<<768, 8157>>, <<769, 8158>>, <<834, 8159>>>>>>, <<8592, <<<<824, 8602>>>>>>,
        <<8594, <<<<824, 8603>>>>>>, <<8596, <<<<824, 8622>>>>>>, <<8656, <<<<824, 8653>>>>>>,
        <<8658, <<<<824, 8655>>>>>>, <<8660, <<<<824, 8654>>>>>>, <<8707, <<<<824, 8708>>>>>>,
        <<8712, <<<<824, 8713>>>>>>, <<8715, <<<<824, 8716>>>>>>, <<8739, <<<<824, 8740>>>>>>,
        <<8741, <<<<824, 8742>>>>>>, <<8764, <<<<824, 8769>>>>>>, <<8771, <<<<824, 8772>>>>>>,
        <<8773, <<<<824, 8775>>>>>>, <<8776, <<<<824, 8777>>>>>>, <<8781, <<<<824, 8813>>>>>>,
        <<8801, <<<<824, 8802>>>>>>, <<8804, <<<<824, 8816>>>>>>, <<8805, <<<<824, 8817>>>>>>,
        <<8818, <<<<824, 8820>>>>>>, <<8819, <<<<824, 8821>>>>>>, <<8822, <<<<824, 8824>>>>>>,
        <<8823, <<<<824, 8825>>>>>>, <<8826, <<<<824, 8832>>>>>>, <<8827, <<<<824, 8833>>>>>>,
        <<8828, <<<<824, 8928>>>>>>, <<8829, <<<<824, 8929>>>>>>, <<8834, <<<<824, 8836>>>>>>,
        <<8835, <<<<824, 8837>>>>>>, <<8838, <<<<824, 8840>>>>>>, <<8839, <<<<824, 8841>>>>>>,
        <<8849, <<<<824, 8930>>>>>>, <<8850, <<<<824, 8931>>>>>>, <<8866, <<<<824, 8876>>>>>>,
        <<8872, <<<<824, 8877>>>>>>, <<8873, <<<<824, 8878>>>>>>, <<8875, <<<<824, 8879>>>>>>,
        <<8882, <<<<824, 8938>>>>>>, <<8883, <<<<824, 8939>>>>>>, <<8884, <<<<824, 8940>>>>>>,
        <<8885, <<<<824, 8941>>>>>>, <<12358, <<<<12441, 12436>>>>>>,
        <<12363, <<<<12441, 12364>>>>>>, <<12365, <<<<12441, 12366>>>>>>,
        <<12367, <<<<12441, 12368>>>>>>, <<12369, <<<<12441, 12370>>>>>>,
        <<12371, <<<<12441, 12372>>>>>>, <<12373, <<<<12441, 12374>>>>>>,
        <<12375, <<<<12441, 12376>>>>>>, <<12377, <<<<12441, 12378>>>>>>,
        <<12379, <<<<12441, 12380>>>>>>, <<12381, <<<<12441, 12382>>>>>>,
        <<12383, <<<<12441, 12384>>>>>>, <<12385, <<<<12441, 12386>>>>>>,
        <<12388, <<<<12441, 12389>>>>>>, <<12390, <<<<12441, 12391>>>>>>,
        <<12392, <<<<12441, 12393>>>>>>, <<12399, <<<<12441, 12400>>, <<12442, 12401>>>>>>,
        <<12402, <<<<12441, 12403>>, <<12442, 12404>>>>>>,
        <<12405, <<<<12441, 12406>>, <<12442, 12407>>>>>>,
        <<12408, <<<<12441, 12409>>, <<12442, 12410>>>>>>,
        <<12411, <<<<12441, 12412>>, <<12442, 12413>>>>>>, <<12445, <<<<12441, 12446>>>>>>,
        <<12454, <<<<12441, 12532>>>>>>, <<12459, <<<<12441, 12460>>>>>>,
        <<12461, <<<<12441, 12462>>>>>>, <<12463, <<<<12441, 12464>>>>>>,
        <<12465, <<<<12441, 12466>>>>>>, <<12467, <<<<12441, 12468>>>>>>,
        <<12469, <<<<12441, 12470>>>>>>, <<12471, <<<<12441, 12472>>>>>>,
        <<12473, <<<<12441, 12474>>>>>>, <<12475, <<<<12441, 12476>>>>>>,
        <<12477, <<<<12441, 12478>>>>>>, <<12479, <<<<12441, 12480>>>>>>,
        <<12481, <<<<12441, 12482>>>>>>, <<12484, <<<<12441, 12485>>>>>>,
        <<12486, <<<<12441, 12487>>>>>>, <<12488, <<<<12441, 12489>>>>>>,
        <<12495, <<<<12441, 12496>>, <<12442, 12497>>>>>>,
        <<12498, <<<<12441, 12499>>, <<12442, 12500>>>>>>,
        <<12501, <<<<12441, 12502>>, <<12442, 12503>>>>>>,
        <<12504, <<<<12441, 12505>>, <<12442, 12506>>>>>>,
        <<12507, <<<<12441, 12508>>, <<12442, 12509>>>>>>, <<12527, <<<<12441, 12535>>>>>>,
        <<12528, <<<<12441, 12536>>>>>>, <<12529, <<<<12441, 12537>>>>>>,
        <<12530, <<<<12441, 12538>>>>>>, <<12541, <<<<12441, 12542>>>>>>,
        <<69785, <<<<69818, 69786>>>>>>, <<69787, <<<<69818, 69788>>>>>>,
        <<69797, <<<<69818, 69803>>>>>>, <<69937, <<<<69927, 69934>>>>>>,
        <<69938, <<<<69927, 69935>>>>>>, <<70471, <<<<70462, 70475>>, <<70487, 70476>>>>>>,
        <<70841, <<<<70832, 70844>>, <<70842, 70843>>, <<70845, 70846>>>>>>,
        <<71096, <<<<71087, 71098>>>>>>, <<71097, <<<<71087, 71099>>>>>>,
        <<71989, <<<<71984, 71992>>>>>> >>

\* for each block of 1024 code points of CanonicalCompositions, from U+0000 on: the number
\* of the last row that begins at or before the first code point of the block,
\* 0 for none
CompositionIndex ==
    <<
        0, 129, 167, 175, 183, 184, 184, 195, 278, 319, 319, 319, 319, 367, 367, 367, 367, 367,
        367, 367, 367, 367, 367, 367, 367, 367, 367, 367, 367, 367, 367, 367, 367, 367, 367,
        367, 367, 367, 367, 367, 367, 367, 367, 367, 367, 367, 367, 367, 367, 367, 367, 367,
        367, 367, 367, 367, 367, 367, 367, 367, 367, 367, 367, 367, 367, 367, 367, 367, 367,
        373, 376, 377, 377, 377, 377, 377, 377, 377, 377, 377, 377, 377, 377, 377, 377, 377,
        377, 377, 377, 377, 377, 377, 377, 377, 377, 377, 377, 377, 377, 377, 377, 377, 377,
        377, 377, 377, 377, 377, 377, 377, 377, 377, 377, 377, 377, 377, 377, 377, 377, 377,
        377, 377, 377, 377, 377, 377, 377, 377, 377, 377, 377, 377, 377, 377, 377, 377, 377,
        377, 377, 377, 377, 377, 377, 377, 377, 377, 377, 377, 377, 377, 377, 377, 377, 377,
        377, 377, 377, 377, 377, 377, 377, 377, 377, 377, 377, 377, 377, 377, 377, 377, 377,
        377, 377, 377, 377, 377, 377, 377, 377, 377, 377, 377, 377, 377, 377, 377, 377, 377,
        377, 377, 377, 377, 377, 377, 377, 377, 377, 377, 377, 377, 377, 377, 377, 377, 377,
        377, 377, 377, 377, 377, 377, 377, 377, 377, 377, 377, 377, 377, 377, 377, 377, 377,
        377, 377, 377, 377, 377, 377, 377, 377, 377, 377, 377, 377, 377, 377, 377, 377, 377,
        377, 377, 377, 377, 377, 377, 377, 377, 377, 377, 377, 377, 377, 377, 377, 377, 377,
        377, 377, 377, 377, 377, 377, 377, 377, 377, 377, 377, 377, 377, 377, 377, 377, 377,
        377, 377, 377, 377, 377, 377, 377, 377, 377, 377, 377, 377, 377, 377, 377, 377, 377,
        377, 377, 377, 377, 377, 377, 377, 377, 377, 377, 377, 377, 377, 377, 377, 377, 377,
        377, 377, 377, 377, 377, 377, 377, 377, 377, 377, 377, 377, 377, 377, 377, 377, 377,
        377, 377, 377, 377, 377, 377, 377, 377, 377, 377, 377, 377, 377, 377, 377, 377, 377,
        377, 377, 377, 377, 377, 377, 377, 377, 377, 377, 377, 377, 377, 377, 377, 377, 377,
        377, 377, 377, 377, 377, 377, 377, 377, 377, 377, 377, 377, 377, 377, 377, 377, 377,
        377, 377, 377, 377, 377, 377, 377, 377, 377, 377, 377, 377, 377, 377, 377, 377, 377,
        377, 377, 377, 377, 377, 377, 377, 377, 377, 377, 377, 377, 377, 377, 377, 377, 377,
        377, 377, 377, 377, 377, 377, 377, 377, 377, 377, 377, 377, 377, 377, 377, 377, 377,
        377, 377, 377, 377, 377, 377, 377, 377, 377, 377, 377, 377, 377, 377, 377, 377, 377,
        377, 377, 377, 377, 377, 377, 377, 377, 377, 377, 377, 377, 377, 377, 377, 377, 377,
        377, 377, 377, 377, 377, 377, 377, 377, 377, 377, 377, 377, 377, 377, 377, 377, 377,
        377, 377, 377, 377, 377, 377, 377, 377, 377, 377, 377, 377, 377, 377, 377, 377, 377,
        377, 377, 377, 377, 377, 377, 377, 377, 377, 377, 377, 377, 377, 377, 377, 377, 377,
        377, 377, 377, 377, 377, 377, 377, 377, 377, 377, 377, 377, 377, 377, 377, 377, 377,
        377, 377, 377, 377, 377, 377, 377, 377, 377, 377, 377, 377, 377, 377, 377, 377, 377,
        377, 377, 377, 377, 377, 377, 377, 377, 377, 377, 377, 377, 377, 377, 377, 377, 377,
        377, 377, 377, 377, 377, 377, 377, 377, 377, 377, 377, 377, 377, 377, 377, 377, 377,
        377, 377, 377, 377, 377, 377, 377, 377, 377, 377, 377, 377, 377, 377, 377, 377, 377,
        377, 377, 377, 377, 377, 377, 377, 377, 377, 377, 377, 377, 377, 377, 377, 377, 377,
        377, 377, 377, 377, 377, 377, 377, 377, 377, 377, 377, 377, 377, 377, 377, 377, 377,
        377, 377, 377, 377, 377, 377, 377, 377, 377, 377, 377, 377, 377, 377, 377, 377, 377,
        377, 377, 377, 377, 377, 377, 377, 377, 377, 377, 377, 377, 377, 377, 377, 377, 377,
        377, 377, 377, 377, 377, 377, 377, 377, 377, 377, 377, 377, 377, 377, 377, 377, 377,
        377, 377, 377, 377, 377, 377, 377, 377, 377, 377, 377, 377, 377, 377, 377, 377, 377,
        377, 377, 377, 377, 377, 377, 377, 377, 377, 377, 377, 377, 377, 377, 377, 377, 377,
        377, 377, 377, 377, 377, 377, 377, 377, 377, 377, 377, 377, 377, 377, 377, 377, 377,
        377, 377, 377, 377, 377, 377, 377, 377, 377, 377, 377, 377, 377, 377, 377, 377, 377,
        377, 377, 377, 377, 377, 377, 377, 377, 377, 377, 377, 377, 377, 377, 377, 377, 377,
        377, 377, 377, 377, 377, 377, 377, 377, 377, 377, 377, 377, 377, 377, 377, 377, 377,
        377, 377, 377, 377, 377, 377, 377, 377, 377, 377, 377, 377, 377, 377, 377, 377, 377,
        377, 377, 377, 377, 377, 377, 377, 377, 377, 377, 377, 377, 377, 377, 377, 377, 377,
        377, 377, 377, 377, 377, 377, 377, 377, 377, 377, 377, 377, 377, 377, 377, 377, 377,
        377, 377, 377, 377, 377, 377, 377, 377, 377, 377, 377, 377, 377, 377, 377, 377, 377,
        377, 377, 377, 377, 377, 377, 377, 377, 377, 377, 377, 377, 377, 377, 377, 377, 377,
        377, 377, 377, 377, 377, 377, 377, 377, 377, 377, 377, 377, 377, 377, 377, 377, 377,
        377, 377, 377, 377, 377, 377, 377, 377, 377, 377, 377, 377, 377, 377, 377, 377, 377,
        377, 377, 377, 377, 377, 377, 377, 377, 377, 377, 377, 377, 377, 377, 377, 377, 377,
        377, 377, 377, 377, 377, 377, 377, 377, 377, 377, 377, 377, 377, 377, 377, 377, 377,
        377, 377, 377, 377, 377, 377, 377, 377, 377, 377, 377, 377, 377, 377, 377, 377, 377,
        377, 377, 377, 377, 377, 377, 377, 377, 377, 377, 377, 377, 377, 377, 377, 377, 377,
        377, 377, 377, 377, 377, 377, 377, 377, 377, 377, 377, 377, 377, 377, 377, 377, 377,
        377, 377, 377, 377, 377, 377, 377, 377, 377, 377, 377, 377, 377, 377, 377, 377, 377,
        377, 377, 377, 377, 377, 377, 377, 377, 377, 377, 377, 377, 377, 377, 377, 377, 377,
        377, 377, 377, 377, 377, 377, 377, 377, 377, 377, 377, 377, 377, 377, 377, 377, 377,
        377, 377, 377, 377, 377, 377, 377, 377, 377, 377, 377, 377, 377, 377, 377, 377, 377,
        377, 377, 377, 377, 377, 377, 377, 377, 377, 377, 377, 377, 377, 377, 377, 377, 377,
        377, 377, 377, 377, 377, 377, 377, 377, 377, 377, 377, 377, 377, 377, 377, 377 >>

\* the number of the last row of a table, sorted by its first column, that
\* begins at or before the code point cp, 0 for none; index tells the row to
\* search from for each block of 1024 code points
rowOf(table, index, cp) ==
    Strict(cp \div 1024, LAMBDA b :
    Strict(IF b + 2 <= Len(index) THEN index[b + 2] ELSE Len(table), LAMBDA hi :
        CHOOSE k \in index[b + 1]..hi :
            /\ k = 0 \/ table[k][1] <= cp
            /\ k = hi \/ table[k + 1][1] > cp))

\* the properties row of a code point
propsOf(cp) == CodePointProperties[rowOf(CodePointProperties, CodePointIndex, cp)]

\* the canonical decomposition of one code point; a Hangul syllable
\* (U+AC00 to U+D7A3) is taken apart by arithmetic
decomposeOne(cp) ==
    IF cp \in 44032..55203
    THEN LET s == cp - 44032 IN
         <<4352 + (s \div 588), 4449 + ((s % 588) \div 28)>>
             \o (IF s % 28 = 0 THEN <<>> ELSE <<4519 + (s % 28)>>)
    ELSE Strict(rowOf(CanonicalDecompositions, DecompositionIndex, cp), LAMBDA r :
             IF r > 0 /\ CanonicalDecompositions[r][1] = cp
             THEN CanonicalDecompositions[r][2] ELSE <<cp>>)

\* item = <<code point, class>> put into acc before the items at the end
\* of acc whose class is greater; a starter goes to the end
insertByClass(acc, item) ==
    Strict(IF item[2] = 0 THEN Len(acc)
           ELSE LET stops == { j \in 1..Len(acc) : acc[j][2] <= item[2] } IN
                IF stops = {} THEN 0 ELSE MaxOf(stops),
           LAMBDA k : SubSeq(acc, 1, k) \o <<item>> \o SubSeq(acc, k + 1, Len(acc)))

\* canonical ordering of decomposed code points, a sequence of
\* <<code point, Canonical_Combining_Class>>
decomposeFrom(cps) ==
    Strict(cps, LAMBDA s :
        Walk(LAMBDA acc, k : insertByClass(acc, <<s[k], propsOf(s[k])[3]>>), <<>>, Len(s)))

\* the decompositions of the code points of cps
decomposeAll(cps) ==
    Strict(cps, LAMBDA s :
        Walk(LAMBDA acc, k : acc \o decomposeOne(s[k]), <<>>, Len(s)))

\* the composite of a pair of code points, an option; the Hangul syllables
\* by arithmetic
composePair(a, b) ==
    IF a \in 4352..4370 /\ b \in 4449..4469
    THEN Some(44032 + ((((a - 4352) * 21) + (b - 4449)) * 28))
    ELSE IF a \in 44032..55203 /\ (a - 44032) % 28 = 0 /\ b \in 4520..4546
    THEN Some(a + (b - 4519))
    ELSE Strict(rowOf(CanonicalCompositions, CompositionIndex, a), LAMBDA r :
             IF r = 0 \/ CanonicalCompositions[r][1] # a THEN Null
             ELSE Strict(SelectSeq(CanonicalCompositions[r][2], LAMBDA p : p[1] = b),
                         LAMBDA hits : IF Len(hits) = 0 THEN Null ELSE Some(hits[1][2])))

\* one step of canonical composition, on the item <<code point, class>>;
\* st = [out, starter, last]: the code points so far, the position of the
\* last starter among them (0 for none) and the class of the last code point
\* kept
composeFrom(st, item) ==
    Strict(IF st.starter > 0 /\ (st.last < item[2] \/ st.last = 0)
           THEN composePair(st.out[st.starter], item[1]) ELSE Null,
           LAMBDA composite :
        IF ~IsNull(composite)
        THEN [st EXCEPT !.out[st.starter] = Val(composite)]
        ELSE [out     |-> Append(st.out, item[1]),
              starter |-> IF item[2] = 0 THEN Len(st.out) + 1 ELSE st.starter,
              last    |-> item[2]])

\* Normalization Form C
normalize(cps) ==
    Strict(decomposeAll(cps), LAMBDA parts :
    Strict(decomposeFrom(parts), LAMBDA items :
        Walk(LAMBDA st, k : composeFrom(st, items[k]),
             [out |-> <<>>, starter |-> 0, last |-> 0], Len(items)).out))

(* Domain to ASCII (UTS #46, non-transitional, no STD3 rules, no hyphen     *)
(* checks) on code points.                                                  *)

\* the mapping of one code point: an option of the code points it becomes,
\* Null for a disallowed one and for a number past U+10FFFF
idnaMap(cp) ==
    IF cp > 1114111 THEN Null
    ELSE Strict(IdnaMappingTable[rowOf(IdnaMappingTable, IdnaMappingIndex, cp)], LAMBDA row :
        IF row[2] = "X" THEN Null
        ELSE IF row[2] = "I" THEN Some(<<>>)
        ELSE IF row[2] = "V" THEN Some(<<cp>>)
        ELSE Some(row[3]))

\* the mapping of a domain, an option: Null when a code point is disallowed
idnaMapAll(cps) ==
    Strict(cps, LAMBDA s :
        Walk(LAMBDA acc, k :
                 IF IsNull(acc) THEN Null
                 ELSE Strict(idnaMap(s[k]), LAMBDA m :
                          IF IsNull(m) THEN Null ELSE Some(Val(acc) \o Val(m))),
             Some(<<>>), Len(s)))

\* what a byte that begins a UTF-8 sequence of two to four bytes says: the
\* bytes to follow, the range of the next byte and the bits it carries
\* itself; more = 0 for any other byte
utf8Lead(b) ==
    IF b \in 194..223 THEN [more |-> 1, lo |-> 128, hi |-> 191, bits |-> b % 32]
    ELSE IF b = 224 THEN [more |-> 2, lo |-> 160, hi |-> 191, bits |-> 0]
    ELSE IF b = 237 THEN [more |-> 2, lo |-> 128, hi |-> 159, bits |-> 13]
    ELSE IF b \in 225..239 THEN [more |-> 2, lo |-> 128, hi |-> 191, bits |-> b % 16]
    ELSE IF b = 240 THEN [more |-> 3, lo |-> 144, hi |-> 191, bits |-> 0]
    ELSE IF b = 244 THEN [more |-> 3, lo |-> 128, hi |-> 143, bits |-> 4]
    ELSE IF b \in 241..243 THEN [more |-> 3, lo |-> 128, hi |-> 191, bits |-> b % 8]
    ELSE [more |-> 0, lo |-> 0, hi |-> 0, bits |-> 0]

\* the code point that begins at position i of bytes and the position after
\* it; an ill-formed sequence gives U+FFFD and ends before the byte that
\* does not fit
utf8Next(bytes, i) ==
    IF bytes[i] < 128 THEN [cp |-> bytes[i], next |-> i + 1]
    ELSE Strict(utf8Lead(bytes[i]), LAMBDA l :
        LET fits(k, lo, hi) == k <= Len(bytes) /\ bytes[k] \in lo..hi
            low(k) == bytes[k] % 64
        IN  IF l.more = 0 \/ ~fits(i + 1, l.lo, l.hi)
            THEN [cp |-> 65533, next |-> i + 1]
            ELSE IF l.more = 1
            THEN [cp |-> (l.bits * 64) + low(i + 1), next |-> i + 2]
            ELSE IF ~fits(i + 2, 128, 191)
            THEN [cp |-> 65533, next |-> i + 2]
            ELSE IF l.more = 2
            THEN [cp |-> (((l.bits * 64) + low(i + 1)) * 64) + low(i + 2),
                  next |-> i + 3]
            ELSE IF ~fits(i + 3, 128, 191)
            THEN [cp |-> 65533, next |-> i + 3]
            ELSE [cp |-> (((((l.bits * 64) + low(i + 1)) * 64) + low(i + 2)) * 64)
                             + low(i + 3),
                  next |-> i + 4])

\* UTF-8 decode without BOM: the code points of bytes
utf8Decode(bytes) ==
    Strict(bytes, LAMBDA b :
        Walk(LAMBDA st, k :
                 IF k < st.next THEN st
                 ELSE Strict(utf8Next(b, k), LAMBDA r :
                          [next |-> r.next, out |-> Append(st.out, r.cp)]),
             [next |-> 1, out |-> <<>>], Len(b)).out)

(* Punycode (RFC 3492): base 36, tmin 1, tmax 26, skew 38, damp 700,        *)
(* initial bias 72, initial n 128.                                          *)

MaxInt == 2147483647

\* the value of a Punycode digit, -1 for any other code point
punyDigit(code) ==
    IF code \in 97..122 THEN code - 97
    ELSE IF code \in 65..90 THEN code - 65
    ELSE IF code \in 48..57 THEN code - 22
    ELSE -1

\* the code point of a Punycode digit
punyCode(d) == IF d < 26 THEN 97 + d ELSE 22 + d

punyThreshold(k, bias) ==
    IF k <= bias THEN 1 ELSE IF k >= bias + 26 THEN 26 ELSE k - bias

RECURSIVE punyAdaptLoop(_, _)
punyAdaptLoop(delta, k) ==
    IF delta > 455 THEN punyAdaptLoop(delta \div 35, k + 36)
    ELSE k + ((36 * delta) \div (delta + 38))

punyAdapt(delta, numpoints, first) ==
    Strict(IF first THEN delta \div 700 ELSE delta \div 2, LAMBDA d1 :
        punyAdaptLoop(d1 + (d1 \div numpoints), 0))

\* one digit of the decoder; st = [ok, open, out, n, i, oldi, w, k, bias]:
\* out the code points so far, i the number being read on top of oldi, w
\* and k the weight and the threshold base of the next digit, open whether a
\* number is begun and not ended.  The digit that ends a number puts a code
\* point into out.
punyDecodeFrom(st, code) ==
    IF ~st.ok THEN st
    ELSE LET dg == punyDigit(code)
             t  == punyThreshold(st.k, st.bias)
         IN  IF dg < 0 \/ dg > (MaxInt - st.i) \div st.w THEN [st EXCEPT !.ok = FALSE]
             ELSE Strict(st.i + (dg * st.w), LAMBDA i :
                  IF dg < t
                  THEN LET size == Len(st.out) + 1
                           at   == i % size
                           nn   == st.n + (i \div size)
                       IN  IF (i \div size) > MaxInt - st.n THEN [st EXCEPT !.ok = FALSE]
                           ELSE [ok   |-> TRUE,
                                 open |-> FALSE,
                                 out  |-> SubSeq(st.out, 1, at) \o <<nn>>
                                              \o SubSeq(st.out, at + 1, Len(st.out)),
                                 n    |-> nn,
                                 i    |-> at + 1,
                                 oldi |-> at + 1,
                                 w    |-> 1,
                                 k    |-> 36,
                                 bias |-> punyAdapt(i - st.oldi, size, st.oldi = 0)]
                  ELSE IF st.w > MaxInt \div (36 - t) THEN [st EXCEPT !.ok = FALSE]
                  ELSE [st EXCEPT !.open = TRUE, !.i = i, !.w = st.w * (36 - t),
                                  !.k = st.k + 36])

\* the code points a Punycode text s (code points) stands for, an option;
\* the text before the last "-" is copied, wherever that "-" stands
punycodeDecode(s) ==
    Strict(s, LAMBDA t :
    Strict(LET dashes == { k \in 1..Len(t) : t[k] = 45 } IN
           IF dashes = {} THEN 0 ELSE MaxOf(dashes), LAMBDA d :
    Strict(Walk(LAMBDA st, k : punyDecodeFrom(st, t[d + k]),
                [ok |-> TRUE, open |-> FALSE, out |-> SubSeq(t, 1, d - 1), n |-> 128,
                 i |-> 0, oldi |-> 0, w |-> 1, k |-> 36, bias |-> 72],
                Len(t) - d), LAMBDA end :
        IF end.ok /\ ~end.open THEN Some(end.out) ELSE Null)))

RECURSIVE punyEncodeInt(_, _, _)
punyEncodeInt(q, k, bias) ==
    LET t == punyThreshold(k, bias) IN
    IF q < t THEN <<punyCode(q)>>
    ELSE <<punyCode(t + ((q - t) % (36 - t)))>>
             \o punyEncodeInt((q - t) \div (36 - t), k + 36, bias)

\* one step of the pass of the encoder for the code point n, on the code
\* point cp: st = [ok, out, delta, bias, h]; b is the number of basic code
\* points.  The encoder gives up when delta, at MaxInt, is to be raised
punyEncodeScan(st, cp, n, b) ==
    IF ~st.ok THEN st
    ELSE IF cp < n
    THEN IF st.delta = MaxInt THEN [st EXCEPT !.ok = FALSE]
         ELSE [st EXCEPT !.delta = @ + 1]
    ELSE IF cp = n
    THEN [ok    |-> TRUE,
          out   |-> st.out \o punyEncodeInt(st.delta, 36, st.bias),
          delta |-> 0,
          bias  |-> punyAdapt(st.delta, st.h + 1, st.h = b),
          h     |-> st.h + 1]
    ELSE st

\* one round of the encoder, for the code point m, the least one not yet
\* written: st = [ok, out, delta, bias, h, n].  The encoder gives up when
\* delta + (m - n) * (h + 1) would pass MaxInt
punyEncodeRounds(cps, st, m, b) ==
    IF ~st.ok THEN st
    ELSE IF (m - st.n) > (MaxInt - st.delta) \div (st.h + 1)
    THEN [st EXCEPT !.ok = FALSE]
    ELSE
    Strict([ok    |-> TRUE,
            out   |-> st.out,
            delta |-> st.delta + ((m - st.n) * (st.h + 1)),
            bias  |-> st.bias,
            h     |-> st.h], LAMBDA from :
    Strict(Walk(LAMBDA x, j : punyEncodeScan(x, cps[j], m, b), from, Len(cps)), LAMBDA r :
        IF ~r.ok
        THEN [ok |-> FALSE, out |-> r.out, delta |-> r.delta, bias |-> r.bias,
              h |-> r.h, n |-> m]
        ELSE [ok |-> TRUE, out |-> r.out, delta |-> r.delta + 1, bias |-> r.bias,
              h |-> r.h, n |-> m + 1]))

\* the Punycode text (code points) of cps, an option: none when a number
\* the encoder has to write passes MaxInt
punycodeEncode(cps) ==
    Strict(cps, LAMBDA s :
    Strict(SelectSeq(s, LAMBDA cp : cp < 128), LAMBDA basic :
    Strict({ s[k] : k \in { j \in 1..Len(s) : s[j] >= 128 } }, LAMBDA others :
    \* the other code points in ascending order
    Strict([r \in 1..Cardinality(others) |->
               CHOOSE m \in others : Cardinality({ x \in others : x < m }) = r - 1],
           LAMBDA rounds :
    Strict(Walk(LAMBDA st, r : punyEncodeRounds(s, st, rounds[r], Len(basic)),
                [ok    |-> TRUE,
                 out   |-> basic \o (IF Len(basic) > 0 THEN <<45>> ELSE <<>>),
                 delta |-> 0,
                 bias  |-> 72,
                 h     |-> Len(basic),
                 n     |-> 128],
                Cardinality(others)), LAMBDA end :
        IF end.ok THEN Some(end.out) ELSE Null)))))

\* "xn--"
AcePrefix == <<120, 110, 45, 45>>

\* the validity of a label of code points: no mark in front, U+200C and
\* U+200D only where they join, the Bidi rule.  U+200C and U+200D join only
\* after a code point, so a label that begins with one of them is not
\* valid.  For the rest the runtime settles the three from tables of marks,
\* viramas, joining types and directions that belong to its build and
\* differ from one version of it to the next; accept is what they say of
\* the labels put to them.  A label without a mark in front, without
\* U+200C or U+200D and without a code point of a right-to-left block puts
\* nothing to them and is valid.  The blocks of the right-to-left scripts,
\* and U+200F, hold every code point to which a version of the Unicode data
\* gives the direction R, AL or AN, be it by default
isLabelValid(label, accept) ==
    LET RightToLeftBlocks ==
            (1424..2303) \cup {8207} \cup (64285..65023) \cup (65136..65279)
                \cup (67584..69631) \cup (124928..126975)
    IN  IF Len(label) = 0 THEN TRUE
        ELSE IF label[1] \in {8204, 8205} THEN FALSE
        ELSE IF /\ ~propsOf(label[1])[2]
                /\ \A k \in 1..Len(label) :
                       label[k] \notin {8204, 8205} \cup RightToLeftBlocks
        THEN TRUE
        ELSE accept

\* one label of the mapped and normalized domain to ASCII, an option
labelToAscii(label, accept) ==
    IF startsWith(label, AcePrefix)
    THEN \* the label the Punycode text stands for is checked
         IF \E k \in 1..Len(label) : label[k] >= 128 THEN Null
         ELSE Strict(punycodeDecode(SubSeq(label, 5, Len(label))), LAMBDA dec :
              IF IsNull(dec) \/ Len(Val(dec)) = 0 THEN Null
              ELSE IF idnaMapAll(Val(dec)) # dec THEN Null
              ELSE IF normalize(Val(dec)) # Val(dec) THEN Null
              ELSE IF isLabelValid(Val(dec), accept) THEN Some(label) ELSE Null)
    ELSE IF \A k \in 1..Len(label) : label[k] < 128 THEN Some(label)
    ELSE IF isLabelValid(label, accept)
    THEN Strict(punycodeEncode(label), LAMBDA text :
             IF IsNull(text) THEN Null ELSE Some(AcePrefix \o Val(text)))
    ELSE Null

\* the labels to ASCII, an option
labelsToAscii(labels, accept) ==
    Walk(LAMBDA acc, k :
             IF IsNull(acc) THEN Null
             ELSE Strict(labelToAscii(labels[k], accept), LAMBDA a :
                      IF IsNull(a) THEN Null ELSE Some(Append(Val(acc), Val(a)))),
         Some(<<>>), Len(labels))

\* the labels of a domain, mapped and normalized, an option
domainLabels(cps) ==
    Strict(idnaMapAll(cps), LAMBDA mapped :
        IF IsNull(mapped) THEN Null
        ELSE Strict(normalize(Val(mapped)), LAMBDA normal : Some(splitOn(normal, 46))))

\* domain to ASCII of code points, an option of code points
domainToAscii(cps, accept) ==
    Strict(domainLabels(cps), LAMBDA parts :
        IF IsNull(parts) THEN Null
        ELSE Strict(labelsToAscii(Val(parts), accept), LAMBDA labels :
                 IF IsNull(labels) THEN Null
                 ELSE Strict(joinWith(Val(labels), 46), LAMBDA result :
                          IF Len(result) = 0 THEN Null ELSE Some(result))))

(* The IPv4 parser.  A number is kept as [hi, lo], its value being          *)
(* hi * 65536 + lo; hi = 65536 stands for every value of 2^32 and more.     *)

\* the number the digits of s of radix R stand for
ipv4Digits(s, R) ==
    Strict(s, LAMBDA t :
        Walk(LAMBDA acc, k :
                 LET lo == (acc.lo * R) + hexValue(t[k])
                     hi == (acc.hi * R) + (lo \div 65536)
                 IN  [hi |-> IF acc.hi = 65536 \/ hi > 65535 THEN 65536 ELSE hi,
                      lo |-> lo % 65536],
             [hi |-> 0, lo |-> 0], Len(t)))

OctalDigits == {"0","1","2","3","4","5","6","7"}

\* the IPv4 number parser: an option of [hi, lo]
ipv4NumberParser(txt) ==
    IF Len(txt) = 0 THEN Null
    ELSE LET hex  == Len(txt) >= 2 /\ txt[1] = "0" /\ txt[2] \in {"x", "X"}
             oct  == ~hex /\ Len(txt) >= 2 /\ txt[1] = "0"
             R    == IF hex THEN 16 ELSE IF oct THEN 8 ELSE 10
             digs == IF hex THEN HexChars ELSE IF oct THEN OctalDigits ELSE Digits
         IN  Strict(IF hex THEN SubSeq(txt, 3, Len(txt))
                    ELSE IF oct THEN Tail(txt) ELSE txt, LAMBDA body :
                 IF \E k \in 1..Len(body) : body[k] \notin digs THEN Null
                 ELSE Some(ipv4Digits(body, R)))

\* the parts of a host split on ".", without one empty last part
ipv4Parts(txt) ==
    Strict(splitOn(txt, "."), LAMBDA parts :
        IF Len(parts) > 1 /\ Len(parts[Len(parts)]) = 0
        THEN SubSeq(parts, 1, Len(parts) - 1) ELSE parts)

endsInNumber(txt) ==
    Strict(ipv4Parts(txt), LAMBDA parts :
    Strict(parts[Len(parts)], LAMBDA last :
        IF Len(parts) = 1 /\ Len(last) = 0 THEN FALSE
        ELSE \/ Len(last) > 0 /\ \A k \in 1..Len(last) : last[k] \in Digits
             \/ ~IsNull(ipv4NumberParser(last))))

\* the IPv4 parser and serializer: an option of the dotted decimal text;
\* every number but the last is one octet, the last fills the octets that
\* remain
ipv4Parser(txt) ==
    Strict(ipv4Parts(txt), LAMBDA parts :
    Strict(Len(parts), LAMBDA n :
    Strict(<<ipv4NumberParser(parts[1]),
             IF n >= 2 THEN ipv4NumberParser(parts[2]) ELSE Null,
             IF n >= 3 THEN ipv4NumberParser(parts[3]) ELSE Null,
             IF n >= 4 THEN ipv4NumberParser(parts[4]) ELSE Null>>, LAMBDA nums :
        IF n > 4 \/ \E k \in 1..n : IsNull(nums[k]) THEN Null
        ELSE IF \E k \in 1..(n - 1) : Val(nums[k]).hi > 0 \/ Val(nums[k]).lo > 255
        THEN Null
        ELSE Strict(Val(nums[n]), LAMBDA last :
             Strict(<<last.hi \div 256, last.hi % 256, last.lo \div 256, last.lo % 256>>,
                    LAMBDA octets :
                 IF last.hi > 65535 \/ \E k \in 1..(n - 1) : octets[k] # 0 THEN Null
                 ELSE Some(joinWith(<<decimalOf(IF 1 < n THEN Val(nums[1]).lo ELSE octets[1]),
                                      decimalOf(IF 2 < n THEN Val(nums[2]).lo ELSE octets[2]),
                                      decimalOf(IF 3 < n THEN Val(nums[3]).lo ELSE octets[3]),
                                      decimalOf(octets[4])>>, ".")))))))

(* The IPv6 parser: the pieces read so far are a sequence, compress is the  *)
(* number of pieces before the "::" (-1 when there is none).                *)

\* the four numbers of an IPv4 address inside an IPv6 address, an option
ipv6Ipv4(s) ==
    Strict(splitOn(s, "."), LAMBDA parts :
        IF \/ Len(parts) # 4
           \/ \E k \in 1..4 :
                  \/ Len(parts[k]) = 0
                  \/ Len(parts[k]) > 3
                  \/ \E j \in 1..Len(parts[k]) : parts[k][j] \notin Digits
                  \/ Len(parts[k]) > 1 /\ parts[k][1] = "0"
        THEN Null
        ELSE Strict(<<ipv4Digits(parts[1], 10).lo,
                      ipv4Digits(parts[2], 10).lo,
                      ipv4Digits(parts[3], 10).lo,
                      ipv4Digits(parts[4], 10).lo>>, LAMBDA nums :
                 IF \E k \in 1..4 : nums[k] > 255 THEN Null ELSE Some(nums)))

RECURSIVE ipv6Pieces(_, _)
\* the main loop of the IPv6 parser from the state st = [p, pieces, compress]
\* on: an option of [pieces, compress]
ipv6Pieces(s, st) ==
    IF st.p > Len(s) THEN Some([pieces |-> st.pieces, compress |-> st.compress])
    ELSE IF Len(st.pieces) = 8 THEN Null
    ELSE IF s[st.p] = ":"
    THEN IF st.compress # -1 THEN Null
         ELSE Strict([p        |-> st.p + 1,
                      pieces   |-> Append(st.pieces, 0),
                      compress |-> Len(st.pieces) + 1],
                     LAMBDA next : ipv6Pieces(s, next))
    ELSE Strict(firstNotIn(s, st.p, HexChars), LAMBDA stop :
         Strict(IF stop > st.p + 4 THEN st.p + 4 ELSE stop, LAMBDA q :
         Strict(ipv4Digits(SubSeq(s, st.p, q - 1), 16).lo, LAMBDA value :
             IF q > Len(s)
             THEN Some([pieces |-> Append(st.pieces, value), compress |-> st.compress])
             ELSE IF s[q] = "."
             THEN Strict(ipv6Ipv4(SubSeq(s, st.p, Len(s))), LAMBDA v4 :
                      IF q = st.p \/ Len(st.pieces) > 6 \/ IsNull(v4) THEN Null
                      ELSE Some([pieces   |-> st.pieces
                                                 \o <<(Val(v4)[1] * 256) + Val(v4)[2],
                                                      (Val(v4)[3] * 256) + Val(v4)[4]>>,
                                 compress |-> st.compress]))
             ELSE IF s[q] = ":"
             THEN IF q + 1 > Len(s) THEN Null
                  ELSE Strict([p        |-> q + 1,
                               pieces   |-> Append(st.pieces, value),
                               compress |-> st.compress],
                              LAMBDA next : ipv6Pieces(s, next))
             ELSE Null)))

\* the IPv6 parser: an option of the eight pieces
ipv6Parser(txt) ==
    Strict(IF Len(txt) >= 1 /\ txt[1] = ":"
           THEN IF Len(txt) >= 2 /\ txt[2] = ":"
                THEN ipv6Pieces(txt, [p |-> 3, pieces |-> <<0>>, compress |-> 1])
                ELSE Null
           ELSE ipv6Pieces(txt, [p |-> 1, pieces |-> <<>>, compress |-> -1]),
           LAMBDA r :
        IF IsNull(r) THEN Null
        ELSE LET ps == Val(r).pieces
                 c  == Val(r).compress
             IN  IF c # -1
                 THEN Some(SubSeq(ps, 1, c) \o Rep(0, 8 - Len(ps)) \o SubSeq(ps, c + 1, Len(ps)))
                 ELSE IF Len(ps) # 8 THEN Null ELSE Some(ps))

\* the length of the run of zero pieces that starts at piece i
ipv6ZeroRun(address, i) ==
    IF address[i] # 0 \/ (i > 1 /\ address[i - 1] = 0) THEN 0
    ELSE firstNotIn(address, i, {0}) - i

RECURSIVE ipv6SerializeFrom(_, _, _, _)
ipv6SerializeFrom(address, i, best, len) ==
    IF i > 8 THEN <<>>
    ELSE IF i = best
    THEN (IF i = 1 THEN <<":", ":">> ELSE <<":">>)
             \o ipv6SerializeFrom(address, i + len, best, len)
    ELSE hexOf(address[i]) \o (IF i # 8 THEN <<":">> ELSE <<>>)
             \o ipv6SerializeFrom(address, i + 1, best, len)

\* the IPv6 serializer, in brackets: the first longest run of two or more
\* zero pieces is compressed
ipv6Serialize(address) ==
    Strict(MaxOf({ ipv6ZeroRun(address, i) : i \in 1..8 }), LAMBDA len :
    Strict(IF len < 2 THEN 0 ELSE MinOf({ i \in 1..8 : ipv6ZeroRun(address, i) = len }),
           LAMBDA best :
        <<"[">> \o ipv6SerializeFrom(address, 1, best, len) \o <<"]">>))

\* the host parser: an option of the serialized host
hostParser(txt, isOpaque, accept) ==
    IF Len(txt) > 0 /\ txt[1] = "["
    THEN IF txt[Len(txt)] # "]" THEN Null
         ELSE Strict(ipv6Parser(SubSeq(txt, 2, Len(txt) - 1)), LAMBDA address :
                  IF IsNull(address) THEN Null ELSE Some(ipv6Serialize(Val(address))))
    ELSE IF isOpaque
    THEN IF \E k \in 1..Len(txt) : txt[k] \in ForbiddenHostChars THEN Null
         ELSE Some(txt)
    ELSE Strict(utf8Decode(percentDecode(txt)), LAMBDA domain :
         Strict(domainToAscii(domain, accept), LAMBDA ascii :
             IF IsNull(ascii) THEN Null
             ELSE IF \E k \in 1..Len(Val(ascii)) : Val(ascii)[k] \in ForbiddenDomainCodes
             THEN Null
             ELSE Strict(charsOf(Val(ascii)), LAMBDA host :
                      IF endsInNumber(host) THEN ipv4Parser(host) ELSE Some(host))))

\* the port state: [ok, port], the port an option
portOf(text, scheme) ==
    IF \E k \in 1..Len(text) : text[k] \notin Digits THEN [ok |-> FALSE, port |-> Null]
    ELSE IF Len(text) = 0 THEN [ok |-> TRUE, port |-> Null]
    ELSE Strict(ipv4Digits(text, 10), LAMBDA v :
             IF v.hi > 0 THEN [ok |-> FALSE, port |-> Null]
             ELSE [ok |-> TRUE, port |-> IF v.lo = defaultPort(scheme) THEN Null ELSE Some(v.lo)])

\* the input of the URL parser: leading and trailing C0 controls and spaces
\* are stripped, every tab and newline is removed
urlInput(rawUrl) ==
    Strict({ k \in 1..Len(rawUrl) : rawUrl[k] \notin WhiteSpace }, LAMBDA keep :
        IF keep = {} THEN <<>>
        ELSE SelectSeq(SubSeq(rawUrl, MinOf(keep), MaxOf(keep)),
                       LAMBDA ch : ch \notin {"\t", "\n", "\r"}))

\* a URL without an authority, tail being the text after "scheme:"
urlNoHost(scheme, tail) ==
    [protocol |-> scheme, hostname |-> <<>>, credentials |-> FALSE,
     port |-> Null, slashes |-> FALSE, tail |-> tail]

\* the states of the parser for the file scheme, rest being what follows
\* "file:" without the fragment
parseFile(rest, accept) ==
    IF ~(Len(rest) >= 2 /\ rest[1] \in {"/", "\\"} /\ rest[2] \in {"/", "\\"})
    THEN Some(urlNoHost(SchemeFile, <<>>))
    ELSE Strict(SubSeq(rest, 3, firstIn(rest, 3, {"/", "\\", "?"}) - 1), LAMBDA buffer :
        IF \/ Len(buffer) = 0
           \/ Len(buffer) = 2 /\ buffer[1] \in Letters /\ buffer[2] \in {":", "|"}
        THEN Some(urlNoHost(SchemeFile, <<>>))
        ELSE Strict(hostParser(buffer, FALSE, accept), LAMBDA host :
                 IF IsNull(host) THEN Null
                 ELSE Some([urlNoHost(SchemeFile, <<>>) EXCEPT
                               !.slashes = TRUE,
                               !.hostname = IF Val(host) = <<"l","o","c","a","l","h","o","s","t">>
                                            THEN <<>> ELSE Val(host)])))

\* the position of the first ":" of hp outside brackets, Len(hp) + 1 when
\* there is none
hostEnd(hp) ==
    LET inside(k) ==
            LET opens  == { j \in 1..(k - 1) : hp[j] = "[" }
                closes == { j \in 1..(k - 1) : hp[j] = "]" }
            IN  opens # {} /\ (closes = {} \/ MaxOf(closes) < MaxOf(opens))
        hits == { k \in 1..Len(hp) : hp[k] = ":" /\ ~inside(k) }
    IN  IF hits = {} THEN Len(hp) + 1 ELSE MinOf(hits)

\* the authority state on r2, the text from the authority on: [e, at, user,
\* hp, k], e the position after the authority, at the position of its last
\* "@" (0 for none), user the text before that "@" and hp the text after it,
\* k the position of the ":" before the port
authorityParts(special, r2) ==
    Strict(firstIn(r2, 1, IF special THEN {"/", "\\", "?"} ELSE {"/", "?"}), LAMBDA e :
    Strict(SubSeq(r2, 1, e - 1), LAMBDA auth :
    Strict(LET ats == { k \in 1..Len(auth) : auth[k] = "@" } IN
           IF ats = {} THEN 0 ELSE MaxOf(ats), LAMBDA at :
    Strict(SubSeq(auth, at + 1, Len(auth)), LAMBDA hp :
        [e |-> e, at |-> at, user |-> SubSeq(auth, 1, at - 1), hp |-> hp,
         k |-> hostEnd(hp)]))))

\* the authority, host and port states, r2 being the text from the authority on
parseAuthority(scheme, special, r2, accept) ==
    Strict(authorityParts(special, r2), LAMBDA a :
    Strict(SubSeq(a.hp, 1, a.k - 1), LAMBDA hs :
        IF \/ a.at > 0 /\ Len(a.hp) = 0
           \/ a.k <= Len(a.hp) /\ Len(hs) = 0
           \/ special /\ Len(hs) = 0
        THEN Null
        ELSE Strict(hostParser(hs, ~special, accept), LAMBDA host :
             Strict(portOf(SubSeq(a.hp, a.k + 1, Len(a.hp)), scheme), LAMBDA port :
                 IF IsNull(host) \/ ~port.ok THEN Null
                 ELSE Some([protocol    |-> scheme,
                            hostname    |-> Val(host),
                            \* the userinfo without its first ":" is the
                            \* username and the password
                            credentials |-> a.at > 0 /\ Len(a.user) >
                                (IF \E j \in 1..Len(a.user) : a.user[j] = ":" THEN 1 ELSE 0),
                            port        |-> port.port,
                            slashes     |-> TRUE,
                            tail        |-> IF special THEN <<>>
                                            ELSE SubSeq(r2, a.e, Len(r2))])))))

\* new URL(rawUrl) without a base: an option of [protocol, hostname,
\* credentials, port, slashes, tail]; slashes tells whether the URL has an
\* authority; of a URL whose scheme is not special the tail is the text
\* after the authority or, without one, after the colon of the scheme, up to
\* the fragment; accept is the verdict of the tables of the runtime on the
\* labels of the host (isLabelValid)
parseUrl(rawUrl, accept) ==
    Strict(urlInput(rawUrl), LAMBDA s :
    Strict(firstIn(s, 1, {":"}), LAMBDA c :
        IF \/ c > Len(s)
           \/ c = 1
           \/ s[1] \notin Letters
           \/ \E k \in 1..(c - 1) : s[k] \notin SchemeChars
        THEN Null
        ELSE Strict(toLowerCase(SubSeq(s, 1, c - 1)), LAMBDA scheme :
             Strict(SubSeq(s, c + 1, firstIn(s, c + 1, {"#"}) - 1), LAMBDA rest :
                 IF scheme = SchemeFile THEN parseFile(rest, accept)
                 ELSE IF scheme \in SpecialSchemes
                 THEN \* a special scheme skips every slash and backslash
                      Strict(SubSeq(rest, firstNotIn(rest, 1, {"/", "\\"}), Len(rest)),
                             LAMBDA r2 : parseAuthority(scheme, TRUE, r2, accept))
                 ELSE \* another scheme needs "//" for a host
                      IF Len(rest) >= 2 /\ rest[1] = "/" /\ rest[2] = "/"
                      THEN Strict(SubSeq(rest, 3, Len(rest)),
                                  LAMBDA r2 : parseAuthority(scheme, FALSE, r2, accept))
                      ELSE Some(urlNoHost(scheme, rest))))))

isAnoncoinUrl(rawUrl, accept) ==
    Strict(parseUrl(rawUrl, accept), LAMBDA u :
        /\ ~IsNull(u)
        /\ \/ Val(u).hostname = AnoncoinHost
           \/ endsWith(Val(u).hostname, <<".">> \o AnoncoinHost))

(* fetch(rawUrl) of the runtime.  A URL with credentials, a blocked port of *)
(* http(s) and every scheme other than http, https and data are rejected    *)
(* without a request; a data: URL is answered from its own text.            *)

\* the ports fetch blocks
BadPorts ==
    {1, 7, 9, 11, 13, 15, 17, 19, 20, 21, 22, 23, 25, 37, 42, 43, 53, 69, 77, 79,
     87, 95, 101, 102, 103, 104, 109, 110, 111, 113, 115, 117, 119, 123, 135, 137,
     139, 143, 161, 179, 389, 427, 465, 512, 513, 514, 515, 526, 530, 531, 532,
     540, 548, 554, 556, 563, 587, 601, 636, 989, 990, 993, 995, 1719, 1720, 1723,
     2049, 3659, 4045, 4190, 5060, 5061, 6000, 6566, 6665, 6666, 6667, 6668, 6669,
     6679, 6697, 10080}

isSingleDot(segment) == toLowerCase(segment) \in { <<".">>, <<"%","2","e">> }

isDoubleDot(segment) ==
    toLowerCase(segment) \in { <<".",".">>, <<".","%","2","e">>, <<"%","2","e",".">>,
                               <<"%","2","e","%","2","e">> }

\* the path state over the segments of a URL whose scheme is not special:
\* the segments kept.  A double-dot segment takes the last segment away, and
\* at the end of the path leaves an empty segment only where it took one
\* away; a single-dot segment at the end leaves an empty segment
pathSegments(segs) ==
    Walk(LAMBDA path, i :
             LET last == IF i = Len(segs) THEN << <<>> >> ELSE <<>> IN
             IF isDoubleDot(segs[i])
             THEN IF Len(path) = 0 THEN path
                  ELSE SubSeq(path, 1, Len(path) - 1) \o last
             ELSE IF isSingleDot(segs[i]) THEN path \o last
             ELSE Append(path, segs[i]),
         <<>>, Len(segs))

serializePath(path) ==
    Walk(LAMBDA acc, i : acc \o <<"/">> \o path[i], <<>>, Len(path))

\* the text with "%20" for every space, as the serializer writes the spaces
\* of a path of segments and of a query
encodeSpaces(text) ==
    Strict(text, LAMBDA t :
        Walk(LAMBDA acc, k : acc \o (IF t[k] = " " THEN <<"%","2","0">> ELSE <<t[k]>>),
             <<>>, Len(t)))

\* the serialized path and query of a URL whose scheme is not special, from
\* the text that begins at its path.  Of the percent-encoding of the
\* serializer only that of the space is written: the body of a data: URL is
\* percent-decoded, and of its media type only the ending is read
serializePathAndQuery(tail) ==
    Strict(firstIn(tail, 1, {"?"}), LAMBDA q :
    Strict(IF q = 1 THEN <<>>
           ELSE Strict(splitOn(SubSeq(tail, 2, q - 1), "/"), LAMBDA segs :
                    pathSegments(segs)),
           LAMBDA path :
        encodeSpaces(serializePath(path) \o SubSeq(tail, q, Len(tail)))))

\* what the serializer writes after "scheme:" for a URL whose scheme is not
\* special, the fragment left out: with an authority the host, the port and
\* the path of segments; without one a path of segments, with "/." before it
\* where it would begin with "//", or the opaque path as it is; then the query
serializeAfterScheme(u) ==
    IF u.slashes
    THEN <<"/", "/">> \o u.hostname
             \o (IF IsNull(u.port) THEN <<>> ELSE <<":">> \o decimalOf(Val(u.port)))
             \o serializePathAndQuery(u.tail)
    ELSE IF Len(u.tail) > 0 /\ u.tail[1] = "/"
    THEN Strict(serializePathAndQuery(u.tail), LAMBDA sp :
             (IF startsWith(sp, <<"/", "/">>) THEN <<"/", ".">> ELSE <<>>) \o sp)
    ELSE Strict(firstIn(u.tail, 1, {"?"}), LAMBDA q :
             SubSeq(u.tail, 1, q - 1) \o encodeSpaces(SubSeq(u.tail, q, Len(u.tail))))

\* the value of a base64 character, -1 for any other byte
base64Value(byte) ==
    IF byte \in 65..90 THEN byte - 65
    ELSE IF byte \in 97..122 THEN byte - 71
    ELSE IF byte \in 48..57 THEN byte + 4
    ELSE IF byte = 43 THEN 62
    ELSE IF byte = 47 THEN 63
    ELSE -1

\* the bytes of the group of base64 values of v that begins at position i
base64Groups(v, i) ==
    IF Len(v) - i < 1 THEN <<>>
    ELSE IF Len(v) - i = 1 THEN <<((v[i] * 64) + v[i + 1]) \div 16>>
    ELSE IF Len(v) - i = 2
    THEN Strict((v[i] * 4096) + (v[i + 1] * 64) + v[i + 2], LAMBDA buf :
             <<buf \div 1024, (buf \div 4) % 256>>)
    ELSE Strict((v[i] * 262144) + (v[i + 1] * 4096) + (v[i + 2] * 64) + v[i + 3], LAMBDA buf :
             <<buf \div 65536, (buf \div 256) % 256, buf % 256>>)

\* forgiving-base64 decode of bytes, an option of bytes
forgivingBase64(bytes) ==
    \* ASCII whitespace is removed
    Strict(SelectSeq(bytes, LAMBDA byte : byte \notin {9, 10, 12, 13, 32}), LAMBDA s0 :
    Strict(IF Len(s0) % 4 = 0 /\ Len(s0) >= 1 /\ s0[Len(s0)] = 61
           THEN SubSeq(s0, 1, Len(s0) - 1) ELSE s0, LAMBDA s1 :
    Strict(IF Len(s1) % 4 = 3 /\ Len(s0) % 4 = 0 /\ s1[Len(s1)] = 61
           THEN SubSeq(s1, 1, Len(s1) - 1) ELSE s1, LAMBDA s2 :
        IF Len(s2) % 4 = 1 \/ \E k \in 1..Len(s2) : base64Value(s2[k]) < 0 THEN Null
        ELSE Strict([k \in 1..Len(s2) |-> base64Value(s2[k])], LAMBDA v :
                 Some(Walk(LAMBDA acc, g : acc \o base64Groups(v, (4 * g) - 3),
                           <<>>, (Len(v) + 3) \div 4))))))

\* a character outside printable ASCII, which no pattern of the scraper matches
OtherChar == "U+FFFD"

\* Response.text(): UTF-8 decode of the body; a byte order mark in front is
\* dropped before the decoder is called and one more by the decoder;
\* printable ASCII, tab and newlines as they are, any other code point as
\* OtherChar
textOfBytes(bytes) ==
    LET dropByteOrderMark(b) ==
            IF Len(b) >= 3 /\ SubSeq(b, 1, 3) = <<239, 187, 191>>
            THEN SubSeq(b, 4, Len(b)) ELSE b
    IN
    Strict(utf8Decode(dropByteOrderMark(dropByteOrderMark(bytes))), LAMBDA cps :
        Walk(LAMBDA acc, k :
                 Append(acc, IF cps[k] \in 32..126 THEN charOf(cps[k])
                             ELSE IF cps[k] = 9 THEN "\t"
                             ELSE IF cps[k] = 10 THEN "\n"
                             ELSE IF cps[k] = 13 THEN "\r"
                             ELSE OtherChar),
             <<>>, Len(cps)))

\* the media type text ends with ";", spaces or none, and "base64" in any
\* case, once the spaces around it are taken away
endsWithBase64(mimeType) ==
    Strict({ k \in 1..Len(mimeType) : mimeType[k] # " " }, LAMBDA solid :
        /\ solid # {}
        /\ Strict(SubSeq(mimeType, 1, MaxOf(solid)), LAMBDA m :
               /\ endsWith(toLowerCase(m), <<"b","a","s","e","6","4">>)
               /\ Strict({ k \in 1..(Len(m) - 6) : m[k] # " " }, LAMBDA before :
                      before # {} /\ m[MaxOf(before)] = ";")))

\* the data: URL processor on a parsed URL: an option of the body bytes
dataUrlBody(u) ==
    Strict(serializeAfterScheme(u), LAMBDA url :
    Strict(firstIn(url, 1, {","}), LAMBDA comma :
        IF comma > Len(url) THEN Null
        ELSE Strict(percentDecode(SubSeq(url, comma + 1, Len(url))), LAMBDA body :
                 IF endsWithBase64(SubSeq(url, 1, comma - 1))
                 THEN forgivingBase64(body)
                 ELSE Some(body))))

\* what fetch(rawUrl) of a URL that new URL accepts can do: "rejects" (the
\* promise rejects without a request), "network" (a request is sent, any
\* answer), "data" (a response with status 200 and the body given)
fetchOf(rawUrl, accept) ==
    Strict(Val(parseUrl(rawUrl, accept)), LAMBDA u :
        IF u.credentials THEN [kind |-> "rejects", body |-> <<>>]
        ELSE IF u.protocol \in {SchemeHttp, SchemeHttps}
        THEN IF ~IsNull(u.port) /\ Val(u.port) \in BadPorts
             THEN [kind |-> "rejects", body |-> <<>>]
             ELSE [kind |-> "network", body |-> <<>>]
        ELSE IF u.protocol = SchemeData
        THEN Strict(dataUrlBody(u), LAMBDA body :
                 IF IsNull(body) THEN [kind |-> "rejects", body |-> <<>>]
                 ELSE [kind |-> "data", body |-> textOfBytes(Val(body))])
        ELSE [kind |-> "rejects", body |-> <<>>])

extractTokenAddressFromHtml(html) ==
    IF Len(html) = 0 THEN Null
    ELSE LET evmMatch == matchEvm(html)
             solMatch == matchSol(html)
         IN  IF ~IsNull(evmMatch)
             THEN Some([address |-> Val(evmMatch), chainIdGuess |-> "ethereum"])
             ELSE IF ~IsNull(solMatch)
             THEN Some([address |-> Val(solMatch), chainIdGuess |-> "solana"])
             ELSE Null

----------------------------------------------------------------------------
(* The links read from the best pair.  info.websites and info.socials are  *)
(* options of arrays; an entry is [isNull, url, platform, handle]: null, or *)
(* an object whose properties are values [t, v] as those of the request     *)
(* body.                                                                    *)

\* String.prototype.includes
includes(s, sub) ==
    \E i \in 1..(Len(s) - Len(sub) + 1) : SubSeq(s, i, i + Len(sub) - 1) = sub

WordTelegram == <<"t","e","l","e","g","r","a","m">>

WordTwitter == <<"t","w","i","t","t","e","r">>

WordX == <<"x">>

\* part_000 220, part_001 214-215: websites.find((w) => w.url) reads the
\* url of a null entry and throws, unless an entry before it has a url;
\* server.mjs 236 reads w?.url.  info is the option of bestPair.info?.websites,
\* websites is info || []
websitesFindThrows(v, info) ==
    LET websites == IF IsNull(info) THEN <<>> ELSE Val(info) IN
    /\ v # "server"
    /\ \E k \in 1..Len(websites) :
          /\ websites[k].isNull
          /\ \A j \in 1..(k - 1) : ~websites[j].isNull /\ isFalsy(websites[j].url)

\* server.mjs 242-253, part_000 199-201, part_001 182-188: the scan of
\* socials throws.  toLowerCase is not a function of a platform that is set
\* and is not a string; part_000 reads the platform of a null entry; the
\* scans of part_000 and part_001 end at the first entry of Telegram;
\* server.mjs goes through every entry and then calls startsWith on the
\* handle of the entries it picked, where they have no url.  info is the
\* option of bestPair.info?.socials, socials is info || []
socialsScanThrows(v, info) ==
    LET socials   == IF IsNull(info) THEN <<>> ELSE Val(info)
        named(k)  == ~socials[k].isNull /\ ~isFalsy(socials[k].platform)
        bad(k)    == named(k) /\ socials[k].platform.t # "str"
        has(k, w) == /\ named(k)
                     /\ ~bad(k)
                     /\ includes(toLowerCase(socials[k].platform.v), w)
        telegrams == { k \in 1..Len(socials) : has(k, WordTelegram) }
        xs        == { k \in 1..Len(socials) :
                         /\ has(k, WordTwitter) \/ has(k, WordX)
                         /\ telegrams = {} \/ k # MinOf(telegrams) }
        badHandle(k) == /\ isFalsy(socials[k].url)
                        /\ ~isFalsy(socials[k].handle)
                        /\ socials[k].handle.t # "str"
    IN  CASE v = "server" ->
               \/ \E k \in 1..Len(socials) : bad(k)
               \/ telegrams # {} /\ badHandle(MinOf(telegrams))
               \/ xs # {} /\ badHandle(MinOf(xs))
          [] v = "part_000" ->
               \E k \in 1..Len(socials) :
                   /\ socials[k].isNull \/ bad(k)
                   /\ \A j \in 1..(k - 1) : ~has(j, WordTelegram)
          [] OTHER ->
               \E k \in 1..Len(socials) :
                   /\ bad(k)
                   /\ \A j \in 1..(k - 1) : ~has(j, WordTelegram)

----------------------------------------------------------------------------
(* The request handler, one action per stretch of code between two awaits. *)

AddressVariants == {"server", "part_000"}

InternalErrorMessage(v) ==
    IF v = "part_001" THEN "Failed to analyze token." ELSE "Server failed to process request."

\* the facts of the request that the summary text renders
SummaryOf(addr, chain, h) == [tokenAddress |-> addr, chainId |-> chain, holders |-> h]

\* the body of the 200 response
SuccessBody(v, addr, chain, h, level, text) ==
    IF v = "part_001"
    THEN [ok |-> TRUE, chainId |-> chain, tokenAddress |-> addr, holders |-> h,
          summary |-> SummaryOf(addr, chain, h)]
    ELSE [ok |-> TRUE, summary |-> SummaryOf(addr, chain, h),
          aiRisk |-> text, aiRiskLevel |-> level]

\* an error body that also claims success
ErrorBodyOk(msg) == [error |-> msg, ok |-> TRUE]

\* { error: msg }
ErrorBody(msg) == [error |-> msg]

\* a response sent twice
RespondTwice(status, body, why) ==
    /\ pc' = "done"
    /\ res' = [status |-> status, body |-> body]
    /\ sent' = sent + 2
    /\ failed' = why

\* res.status(status).json(body); return
Respond(status, body, why) ==
    /\ pc' = "done"
    /\ res' = [status |-> status, body |-> body]
    /\ sent' = sent + 1
    /\ failed' = why

\* the catch block of the handler
RespondInternalError(why) ==
    Respond(500, ErrorBody(InternalErrorMessage(variant)), why)

\* await fetch(...): the call is issued and the handler is suspended at it
Issue(call, position) ==
    /\ calls' = Append(calls, call)
    /\ pc' = position
    /\ UNCHANGED <<res, sent, failed>>

\* await of a promise that issues no call: the handler is suspended at it
Suspend(position) ==
    /\ pc' = position
    /\ UNCHANGED <<res, sent, failed>>

\* the answer of an external call is complete
Returns(call, kind) == outcomes' = Append(outcomes, [call |-> call, kind |-> kind])

\* value || "": the empty string for a falsy value
orEmpty(value) == IF isFalsy(value) THEN Str(<<>>) ELSE value

\* server.mjs 183-206, part_000: input check, address extraction, market-data call
ReceiveAddress ==
    /\ pc = "start"
    /\ variant \in AddressVariants
    /\ IF orEmpty(input).t # "str"
       THEN \* (req.body?.input || "").trim is not a function
            /\ RespondInternalError("validation")
            /\ UNCHANGED <<tokenAddress, chainId, calls>>
       ELSE LET text     == trim(orEmpty(input).v)
                addrInfo == extractTokenAddressWithSuffix(text)
            IN  IF Len(text) = 0
                THEN /\ Respond(400, ErrorBody("Missing input. Paste a contract address ending in 'doge' or 'DUB'."), "validation")
                     /\ UNCHANGED <<tokenAddress, chainId, calls>>
                ELSE IF IsNull(addrInfo)
                THEN /\ Respond(400, ErrorBody("Invalid contract. Only CAs that look valid and end in 'doge' or 'DUB' are accepted."), "validation")
                     /\ UNCHANGED <<tokenAddress, chainId, calls>>
                ELSE /\ tokenAddress' = Val(addrInfo).address
                     /\ chainId' = Val(addrInfo).chainIdGuess
                     /\ Issue("dex", "dex")
    /\ UNCHANGED <<variant, openai, input, pageFetch, dsJson, bestPair, holders,
                   aiRiskLevel, aiRiskText, riskRes, outcomes, arg, ret>>

\* what the tables of the runtime can say of the labels of a host that are
\* put to them (isLabelValid): valid, or not
TableVerdicts == BOOLEAN

\* part_001 86-101: URL check, page fetch; accept is the verdict of the
\* tables of the runtime, the same for new URL and for fetch
ReceiveUrl(accept) ==
    /\ pc = "start"
    /\ variant = "part_001"
    /\ LET rawUrl == trim(orEmpty(input).v) IN
       IF ~hasToString(orEmpty(input))
       THEN \* (req.body?.url || "").toString is not a function
            /\ RespondInternalError("validation")
            /\ UNCHANGED <<calls, pageFetch>>
       ELSE IF Len(rawUrl) = 0
       THEN /\ Respond(400, ErrorBody("Missing URL."), "validation")
            /\ UNCHANGED <<calls, pageFetch>>
       ELSE IF ~isAnoncoinUrl(rawUrl, accept)
       THEN /\ Respond(400, ErrorBody("Only anoncoin.it URLs are allowed for this scanner."), "validation")
            /\ UNCHANGED <<calls, pageFetch>>
       ELSE /\ pageFetch' = fetchOf(rawUrl, accept)
            /\ Issue("page", "page")
    /\ UNCHANGED <<variant, openai, input, tokenAddress, chainId, dsJson, bestPair,
                   holders, aiRiskLevel, aiRiskText, riskRes, outcomes, arg, ret>>

\* how the promise of a fetch can settle: rejected, fulfilled with a
\* non-success status, fulfilled with a success status
Settlements == {"throws", "notok", "ok"}

\* the settlements the page fetch in flight can have
pageSettlements(f) ==
    CASE f.kind = "network" -> Settlements
      [] f.kind = "data"    -> {"ok"}
      [] OTHER              -> {"throws"}

\* part_001 101-109: the promise of the page fetch settles
PageSettles(k) ==
    /\ pc = "page"
    /\ k \in pageSettlements(pageFetch)
    /\ CASE k = "throws" ->
              /\ Returns("page", "throws")
              /\ RespondInternalError("page")
         [] k = "notok" ->
              \* await pageResp.text().catch(() => "")
              /\ Suspend("pageErrBody")
              /\ UNCHANGED outcomes
         [] k = "ok" ->
              \* await pageResp.text()
              /\ Suspend("pageBody")
              /\ UNCHANGED outcomes
    /\ UNCHANGED <<variant, openai, input, pageFetch, tokenAddress, chainId, dsJson,
                   bestPair, holders, aiRiskLevel, aiRiskText, riskRes, calls, arg, ret>>

\* part_001 103-106: the body of the failed page answer was read, or could
\* not be read
PageErrBodyArrives ==
    /\ pc = "pageErrBody"
    /\ Returns("page", "notok")
    /\ Respond(502, ErrorBody("Failed to fetch Anoncoin page."), "page")
    /\ UNCHANGED <<variant, openai, input, pageFetch, tokenAddress, chainId, dsJson,
                   bestPair, holders, aiRiskLevel, aiRiskText, riskRes, calls, arg, ret>>

\* part_001 109-133: the body of the page arrives; scrape, market-data call
PageBodyArrives(o) ==
    /\ pc = "pageBody"
    /\ pageFetch.kind = "data" => (o.kind = "html" /\ o.html = pageFetch.body)
    /\ Returns("page", o.kind)
    /\ CASE o.kind = "malformed" ->
              \* pageResp.text() rejects
              /\ RespondInternalError("page")
              /\ UNCHANGED <<tokenAddress, chainId, calls>>
         [] o.kind = "html" ->
              LET addrInfo == extractTokenAddressFromHtml(o.html) IN
              IF IsNull(addrInfo)
              THEN /\ Respond(404, ErrorBody("Could not detect a token contract address on this Anoncoin page."), "scrape")
                   /\ UNCHANGED <<tokenAddress, chainId, calls>>
              ELSE /\ tokenAddress' = Val(addrInfo).address
                   /\ chainId' = Val(addrInfo).chainIdGuess
                   /\ Issue("dex", "dex")
    /\ UNCHANGED <<variant, openai, input, pageFetch, dsJson, bestPair, holders,
                   aiRiskLevel, aiRiskText, riskRes, arg, ret>>

\* the handler's default replaced by an optimistic one
aiRiskLevelDefaultLow == <<"l","o","w">>

\* let aiRiskLevel = "unknown"
aiRiskLevelDefault == Unknown

\* the notice of the handler returned in place of the generator's
generateRiskAnalysisNoClientDefault(v) ==
    [riskLevel |-> Unknown, text |-> NoticeUnavailable(v)]

\* generateRiskAnalysis without a client: if (!openai) return {...}
generateRiskAnalysisNoClient(v) ==
    [riskLevel |-> Unknown, text |-> NoticeMissingKey]

\* server.mjs 266-325, part_000 220-281, part_001 206-276: from the holder
\* count to the next await, pair being the best pair.  part_000 and part_001
\* look for the primary website first, which can throw.  part_001 has no
\* risk brief and sends the report.  The other variants set the defaults and
\* call generateRiskAnalysis, which runs up to its first await: without a
\* client it returns the notice at once, with one it issues the
\* chat-completion call; in both cases the handler is suspended at the
\* promise of generateRiskAnalysis
RiskStage(pair, h) ==
    /\ holders' = h
    /\ IF websitesFindThrows(variant, pair.websites)
       THEN /\ RespondInternalError("report")
            /\ UNCHANGED <<calls, aiRiskLevel, aiRiskText, riskRes>>
       ELSE IF variant = "part_001"
       THEN /\ Respond(200, SuccessBody(variant, tokenAddress, chainId, h, <<>>, <<>>), failed)
            /\ UNCHANGED <<calls, aiRiskLevel, aiRiskText, riskRes>>
       ELSE /\ aiRiskLevel' = aiRiskLevelDefault
            /\ aiRiskText' = NoticeUnavailable(variant)
            /\ IF ~openai
               THEN /\ riskRes' = Some(generateRiskAnalysisNoClient(variant))
                    /\ Suspend("risk")
                    /\ UNCHANGED calls
               ELSE /\ Issue("ai", "ai")
                    /\ UNCHANGED riskRes

\* the holder-count lookup attempted for every chain
holdersSupportedAny(chain) == TRUE

\* if (chainId === "solana")
holdersSupported(chain) == chain = "solana"

\* the length test forgotten
noPairsNotArrayOnly(json) == ~json.isArray

\* !Array.isArray(dsJson) || dsJson.length === 0
noPairs(json) == ~json.isArray \/ Len(json.items) = 0

\* server.mjs 206-212, part_001 133-145: the promise of the market-data call
\* settles
DexSettles(k) ==
    /\ pc = "dex"
    /\ k \in Settlements
    /\ CASE k = "throws" ->
              /\ Returns("dex", "throws")
              /\ RespondInternalError("market")
         [] k = "notok" ->
              IF variant = "part_001"
              THEN \* await dsResp.text().catch(() => "")
                   /\ Suspend("dexErrBody")
                   /\ UNCHANGED outcomes
              ELSE /\ Returns("dex", "notok")
                   /\ Respond(502, ErrorBody("Dexscreener API failed."), "market")
         [] k = "ok" ->
              \* await dsResp.json()
              /\ Suspend("dexBody")
              /\ UNCHANGED outcomes
    /\ UNCHANGED <<variant, openai, input, pageFetch, tokenAddress, chainId, dsJson,
                   bestPair, holders, aiRiskLevel, aiRiskText, riskRes, calls, arg, ret>>

\* part_001 138-143: the body of the failed market-data answer was read, or
\* could not be read
DexErrBodyArrives ==
    /\ pc = "dexErrBody"
    /\ Returns("dex", "notok")
    /\ Respond(502, ErrorBody("Failed to fetch DEX data for this token."), "market")
    /\ UNCHANGED <<variant, openai, input, pageFetch, tokenAddress, chainId, dsJson,
                   bestPair, holders, aiRiskLevel, aiRiskText, riskRes, calls, arg, ret>>

\* server.mjs 212-260, part_000 176-205, part_001 145-200: the parsed
\* market-data body arrives
DexBodyArrives(o) ==
    /\ pc = "dexBody"
    /\ Returns("dex", o.kind)
    /\ CASE o.kind = "malformed" ->
              \* dsResp.json() rejects
              /\ RespondInternalError("market")
              /\ UNCHANGED <<dsJson, bestPair, holders, aiRiskLevel, aiRiskText,
                             riskRes, calls>>
         [] o.kind = "json" ->
              /\ dsJson' = [isArray |-> o.isArray, items |-> o.items]
              /\ IF noPairs(dsJson')
                 THEN /\ Respond(404,
                            IF variant = "part_001"
                            THEN [error |-> "No DEX pairs found for this token (maybe not yet live).",
                                  tokenAddress |-> tokenAddress, chainId |-> chainId]
                            ELSE ErrorBody("No pool data found for this token."),
                            "pairs")
                      /\ UNCHANGED <<bestPair, holders, aiRiskLevel, aiRiskText,
                                     riskRes, calls>>
                 ELSE /\ bestPair' = bestPairOf(variant, o.items)
                      /\ IF IsNull(bestPair')
                         THEN \* bestPair.baseToken of null throws
                              /\ RespondInternalError("internal")
                              /\ UNCHANGED <<holders, aiRiskLevel, aiRiskText, riskRes, calls>>
                         ELSE IF socialsScanThrows(variant, Val(bestPair').socials)
                         THEN \* the scan of the socials throws
                              /\ RespondInternalError("internal")
                              /\ UNCHANGED <<holders, aiRiskLevel, aiRiskText, riskRes, calls>>
                         ELSE IF holdersSupported(chainId)
                         THEN /\ Issue("holders", "holders")
                              /\ UNCHANGED <<holders, aiRiskLevel, aiRiskText, riskRes>>
                         ELSE RiskStage(Val(bestPair'), Null)
    /\ UNCHANGED <<variant, openai, input, pageFetch, tokenAddress, chainId, arg, ret>>

\* server.mjs 262-264: holders = hJson.total || null
holdersOfServer(o) ==
    IF o.kind # "json" THEN Null
    ELSE IF IsNull(o.total) \/ Val(o.total) = 0 THEN Null ELSE o.total

\* part_001 202-204: holders = hJson.total ?? hJson.data?.total ?? null
holdersOfUrl(o) ==
    IF o.kind # "json" THEN Null
    ELSE IF ~IsNull(o.total) THEN o.total ELSE o.dataTotal

holdersOf(v, o) == IF v = "part_001" THEN holdersOfUrl(o) ELSE holdersOfServer(o)

\* the answer of a lookup whose promise was rejected or whose status is not
\* a success: no body is read
NoHolderBody(k) == [kind |-> k, total |-> Null, dataTotal |-> Null]

\* server.mjs 259-262, part_001 198-202: the promise of the holder-count call
\* settles; a rejection is caught, a non-success status is skipped
HoldersSettle(k) ==
    /\ pc = "holders"
    /\ k \in Settlements
    /\ IF k = "ok"
       THEN \* await hRes.json()
            /\ Suspend("holdersBody")
            /\ UNCHANGED <<outcomes, holders, aiRiskLevel, aiRiskText, riskRes, calls>>
       ELSE /\ Returns("holders", k)
            /\ RiskStage(Val(bestPair), holdersOf(variant, NoHolderBody(k)))
    /\ UNCHANGED <<variant, openai, input, pageFetch, tokenAddress, chainId, dsJson,
                   bestPair, arg, ret>>

\* server.mjs 263-325, part_001 203-276: the parsed body of the holder-count
\* answer arrives, or the parse fails and is caught
HoldersBodyArrives(o) ==
    /\ pc = "holdersBody"
    /\ Returns("holders", o.kind)
    /\ RiskStage(Val(bestPair), holdersOf(variant, o))
    /\ UNCHANGED <<variant, openai, input, pageFetch, tokenAddress, chainId, dsJson,
                   bestPair, arg, ret>>

\* server.mjs 136-154: the chat-completion call settles and
\* generateRiskAnalysis runs to its end; its promise is fulfilled with
\* { riskLevel, text } or rejected
AiReturns(o) ==
    /\ pc = "ai"
    /\ Returns("ai", o.kind)
    /\ riskRes' = IF o.kind = "throws" THEN Null ELSE Some(parseRiskLevel(o.content))
    /\ Suspend("risk")
    /\ UNCHANGED <<variant, openai, input, pageFetch, tokenAddress, chainId, dsJson,
                   bestPair, holders, aiRiskLevel, aiRiskText, calls, arg, ret>>

\* server.mjs 325-343: the handler resumes after await generateRiskAnalysis;
\* a rejection is caught and leaves the defaults; the report is sent
RiskResumes ==
    /\ pc = "risk"
    /\ LET level == IF IsNull(riskRes) THEN aiRiskLevel ELSE Val(riskRes).riskLevel
           text  == IF IsNull(riskRes) THEN aiRiskText ELSE Val(riskRes).text
       IN  /\ aiRiskLevel' = level
           /\ aiRiskText' = text
           /\ Respond(200, SuccessBody(variant, tokenAddress, chainId, holders, level, text),
                      failed)
    /\ UNCHANGED <<variant, openai, input, pageFetch, tokenAddress, chainId, dsJson,
                   bestPair, holders, riskRes, calls, outcomes, arg, ret>>

----------------------------------------------------------------------------
(* Requests and the answers of the external services.                       *)

\* longest market-data array a request receives
MaxDexPairs == 2


\* a 44-character Base58 address ending in "DUB"
AddressDub == Rep("a", SolMaxLen - 3) \o SuffixDub

\* a 32-character Base58 address ending in "doge"
AddressDoge == Rep("z", SolMinLen - 4) \o SuffixDoge

\* a body without the field, numbers, a boolean, an array of one address, a
\* blank string, and address texts
AddressInputs ==
    { [t |-> "missing", v |-> <<>>],
      [t |-> "number", v |-> <<"7">>],
      [t |-> "number", v |-> <<"0">>],
      [t |-> "boolean", v |-> <<"f","a","l","s","e">>],
      [t |-> "array", v |-> AddressDub],
      Str(<<" ", " ">>),
      Str(AddressDub),
      Str(<<" ">> \o AddressDoge \o <<"\n">>),
      Str(Rep("a", SolMaxLen)),
      Str(Rep("z", SolMinLen - 5) \o SuffixDoge),
      Str(<<"0","x">> \o Rep("a", EvmHexLen - 1) \o <<"d","u","b">>),
      Str(EvmDisallowed) }

UrlPrefix(scheme, host) == scheme \o <<":","/","/">> \o host \o <<"/","F","O","O","d","o","g","e">>

EvilHost == <<"e","v","i","l",".","c","o","m">>

\* "[object Object]", the text of a plain object
ObjectText == <<"[","o","b","j","e","c","t"," ","O","b","j","e","c","t","]">>

\* a page with a 44-character Base58 run
PageWithAddress == <<"<","p",">">> \o Rep("2", SolMaxLen) \o <<"<">>

\* base64 of "<p>2222"
Base64Text == <<"P","H","A","+","M","j","I","y","M","g","=","=">>

UrlInputs ==
    { [t |-> "missing", v |-> <<>>],
      \* numbers, a boolean, an empty array, an array of one URL, objects
      [t |-> "number", v |-> <<"7">>],
      [t |-> "number", v |-> <<"0">>],
      [t |-> "boolean", v |-> <<"f","a","l","s","e">>],
      [t |-> "array", v |-> <<>>],
      [t |-> "array", v |-> UrlPrefix(SchemeHttps, AnoncoinHost)],
      [t |-> "object", v |-> ObjectText],
      [t |-> "notext", v |-> <<>>],
      Str(UrlPrefix(SchemeHttps, AnoncoinHost)),
      Str(UrlPrefix(SchemeHttp, AnoncoinHost)),
      Str(UrlPrefix(SchemeHttps, <<"p","a","d",".">> \o AnoncoinHost)),
      Str(UrlPrefix(<<"f","t","p">>, AnoncoinHost)),
      Str(UrlPrefix(SchemeHttps, <<"n","o","t">> \o AnoncoinHost)),
      Str(UrlPrefix(SchemeHttps, EvilHost)),
      Str(UrlPrefix(SchemeHttps, AnoncoinHost \o <<"@">> \o EvilHost)),
      Str(AnoncoinHost \o <<"/","F","O","O","d","o","g","e">>),
      \* a tab inside the host, a percent-encoded letter, an upper-case host
      Str(UrlPrefix(SchemeHttps, <<"a","n","o","n","\t","c","o","i","n",".","i","t">>)),
      Str(UrlPrefix(SchemeHttps, <<"%","6","1","n","o","n","c","o","i","n",".","i","t">>)),
      Str(UrlPrefix(<<"f","o","o">>, <<"A","N","O","N","C","O","I","N",".","I","T">>)),
      Str(UrlPrefix(<<"f","o","o">>, <<"x","%","4","1",".">> \o AnoncoinHost)),
      \* ports: out of range, blocked by fetch
      Str(UrlPrefix(SchemeHttps, AnoncoinHost \o <<":","9","9","9","9","9">>)),
      Str(UrlPrefix(SchemeHttps, AnoncoinHost \o <<":","2","2">>)),
      \* credentials
      Str(UrlPrefix(SchemeHttps, <<"u",":","p","@">> \o AnoncoinHost)),
      \* Punycode labels: not decodable, decodable
      Str(UrlPrefix(SchemeHttps, <<"x","n","-","-","a",".">> \o AnoncoinHost)),
      Str(UrlPrefix(SchemeHttps, <<"x","n","-","-","t","d","a",".">> \o AnoncoinHost)),
      \* hosts with percent-encoded UTF-8: U+4E2D as a label, U+3002 as the
      \* dot before the domain, U+FF41 for the first letter; a Punycode
      \* text that begins with its delimiter
      Str(UrlPrefix(SchemeHttps, <<"%","e","4","%","b","8","%","a","d",".">> \o AnoncoinHost)),
      Str(UrlPrefix(SchemeHttps, <<"x","%","e","3","%","8","0","%","8","2">> \o AnoncoinHost)),
      Str(UrlPrefix(SchemeHttps, <<"%","e","f","%","b","d","%","8","1">> \o Tail(AnoncoinHost))),
      Str(UrlPrefix(SchemeHttps, <<"x","n","-","-","-","t","d","a",".">> \o AnoncoinHost)),
      \* an IPv4 address in hexadecimal, an IPv6 address
      Str(UrlPrefix(SchemeHttps, <<"0","x","7","f",".","1">>)),
      Str(UrlPrefix(SchemeHttps, <<"[",":",":","1","]">>)),
      \* file: with backslashes
      Str(SchemeFile \o <<":","\\","\\">> \o AnoncoinHost \o <<"\\","x">>),
      \* data: URLs: with a page, in base64, without a comma
      Str(SchemeData \o <<":","/","/">> \o AnoncoinHost \o <<"/",",">> \o PageWithAddress),
      Str(SchemeData \o <<":","/","/">> \o AnoncoinHost \o <<"/",";","b","a","s","e","6","4",",">>
              \o Base64Text),
      Str(SchemeData \o <<":","/","/">> \o AnoncoinHost \o <<"/","x">>),
      \* a data: URL whose body begins with a byte order mark
      Str(SchemeData \o <<":","/","/">> \o AnoncoinHost
              \o <<"/",",","%","e","f","%","b","b","%","b","f">> \o PageWithAddress),
      \* a data: URL whose body is two byte order marks
      Str(SchemeData \o <<":","/","/">> \o AnoncoinHost
              \o <<"/",",","%","e","f","%","b","b","%","b","f","%","e","f","%","b","b","%","b","f">>),
      \* a data: URL whose host begins with the comma and whose path is a
      \* double-dot segment
      Str(SchemeData \o <<":","/","/",",","x",".">> \o AnoncoinHost \o <<"/",".",".">>),
      \* a host whose first label is U+200D alone, which is not valid, and
      \* hosts whose first label is put to the tables of the runtime: the
      \* mark U+0898 alone, the letter U+05D0
      Str(UrlPrefix(SchemeHttps, <<"%","e","2","%","8","0","%","8","d",".">> \o AnoncoinHost)),
      Str(UrlPrefix(SchemeHttps, <<"%","e","0","%","a","2","%","9","8",".">> \o AnoncoinHost)),
      Str(UrlPrefix(SchemeHttps, <<"%","d","7","%","9","0",".">> \o AnoncoinHost)) }

\* the bodies a page answer can have; "malformed" is a body that cannot be read
PageBodies ==
    { [kind |-> "malformed", html |-> <<>>] }
    \cup { [kind |-> "html", html |-> h] :
             h \in { <<>>,
                     <<"<","p",">">>,
                     PageWithAddress,
                     <<"<","p",">">> \o EvmDisallowed \o <<"<">> } }

\* an absent property
Missing == [t |-> "missing", v |-> <<>>]

\* the number 5
NumberFive == [t |-> "number", v |-> <<"5">>]

NullEntry == [isNull |-> TRUE, url |-> Missing, platform |-> Missing, handle |-> Missing]

\* { url: "https://doge.example" }
WebsiteEntry ==
    [isNull |-> FALSE, url |-> Str(<<"https://doge.example">>), platform |-> Missing,
     handle |-> Missing]

\* { platform, handle }
SocialEntry(platform, handle) ==
    [isNull |-> FALSE, url |-> Missing, platform |-> platform, handle |-> handle]

\* what info holds of a pair: nothing; a null website; a null social; a
\* social whose platform is a number; a Telegram entry whose handle is a
\* number; a website and a Telegram entry
DexInfos ==
    { [websites |-> Null, socials |-> Null],
      [websites |-> Some(<<NullEntry>>), socials |-> Null],
      [websites |-> Null, socials |-> Some(<<NullEntry>>)],
      [websites |-> Null, socials |-> Some(<<SocialEntry(NumberFive, Missing)>>)],
      [websites |-> Null,
       socials  |-> Some(<<SocialEntry(Str(<<"T","e","l","e","g","r","a","m">>), NumberFive)>>)],
      [websites |-> Some(<<WebsiteEntry>>),
       socials  |-> Some(<<SocialEntry(Str(<<"T","e","l","e","g","r","a","m">>),
                                       Str(<<"@","d","o","g","e">>))>>)] }

\* the pairs of a market-data body: without liquidity and with none, bare,
\* and with liquidity and each of the infos
DexPairs ==
    { [liquidity |-> l, websites |-> Null, socials |-> Null] :
        l \in {LiquidityAbsent, LiquidityOf(0)} }
    \cup { [liquidity |-> LiquidityOf(100), websites |-> i.websites, socials |-> i.socials] :
             i \in DexInfos }

DexPairArrays ==
    UNION { { [i \in 1..n |-> [id |-> i, liquidity |-> f[i].liquidity,
                               websites |-> f[i].websites, socials |-> f[i].socials]] :
                f \in [1..n -> DexPairs] } : n \in 1..MaxDexPairs }

\* the bodies a market-data answer can have
DexBodies ==
    { [kind |-> "malformed", isArray |-> FALSE, items |-> <<>>],
      [kind |-> "json", isArray |-> FALSE, items |-> <<>>],
      [kind |-> "json", isArray |-> TRUE, items |-> <<>>] }
    \cup { [kind |-> "json", isArray |-> TRUE, items |-> a] : a \in DexPairArrays }

\* the bodies a holder-count answer can have; "badjson" is a parsed body
\* without properties to read (JSON null)
HolderBodies ==
    { [kind |-> k, total |-> Null, dataTotal |-> Null] : k \in {"malformed", "badjson"} }
    \cup { [kind |-> "json", total |-> t, dataTotal |-> d] :
             t \in {Null, Some(0), Some(1234)}, d \in {Null, Some(77)} }

AiContents ==
    { Null,
      Some(RiskLevelPrefix \o <<" ","L","o","w","\n","\n","-"," ","N","o","n","e">>),
      Some(RiskLevelPrefix \o <<" ","C","r","i","t","i","c","a","l">>),
      Some(<<"N","o"," ","d","a","t","a">>) }

AiOutcomes ==
    { [kind |-> "throws", content |-> Null] }
    \cup { [kind |-> "returns", content |-> c] : c \in AiContents }

Init ==
    /\ variant \in Variants
    /\ openai \in (IF variant = "part_001" THEN {FALSE} ELSE BOOLEAN)
    /\ input \in (IF variant = "part_001" THEN UrlInputs ELSE AddressInputs)
    /\ pc = "start"
    /\ pageFetch = NoFetch
    /\ tokenAddress = <<>>
    /\ chainId = ""
    /\ dsJson = [isArray |-> FALSE, items |-> <<>>]
    /\ bestPair = Null
    /\ holders = Null
    /\ aiRiskLevel = <<>>
    /\ aiRiskText = <<>>
    /\ riskRes = Null
    /\ calls = <<>>
    /\ outcomes = <<>>
    /\ failed = ""
    /\ sent = 0
    /\ res = NoResponse
    /\ arg = <<>>
    /\ ret = Null

Next ==
    \/ ReceiveAddress
    \/ \E accept \in TableVerdicts : ReceiveUrl(accept)
    \/ \E k \in Settlements : PageSettles(k)
    \/ PageErrBodyArrives
    \/ \E o \in PageBodies \cup {[kind |-> "html", html |-> pageFetch.body]} :
           PageBodyArrives(o)
    \/ \E k \in Settlements : DexSettles(k)
    \/ DexErrBodyArrives
    \/ \E o \in DexBodies : DexBodyArrives(o)
    \/ \E k \in Settlements : HoldersSettle(k)
    \/ \E o \in HolderBodies : HoldersBodyArrives(o)
    \/ \E o \in AiOutcomes : AiReturns(o)
    \/ RiskResumes

Spec == Init /\ [][Next]_vars

----------------------------------------------------------------------------
(* Vocabulary of the request claims.                                        *)

Issued(call) == \E i \in 1..Len(calls) : calls[i] = call

Returned(call, kind) ==
    \E i \in 1..Len(outcomes) : outcomes[i] = [call |-> call, kind |-> kind]

Done == pc = "done"

Keys(body) == DOMAIN body

FailureKinds == {"throws", "notok", "malformed"}

(* C4: when the market-data call returns a success status and a parsed body *)
(* that is an empty array or is not an array, the request ends with 404,    *)
(* never with 500, and no holder-count or generative-text call is made.     *)
C4_NoPairsIsNotFound ==
    (Returned("dex", "json") /\ (~dsJson.isArray \/ Len(dsJson.items) = 0)) =>
        /\ Done
        /\ sent = 1
        /\ res.status = 404
        /\ ~Issued("holders")
        /\ ~Issued("ai")

\* the 404 sent for a body that is an empty array
C4_Witness ==
    /\ Returned("dex", "json")
    /\ dsJson.isArray
    /\ Len(dsJson.items) = 0
    /\ Done
    /\ res.status = 404

HolderFailureKinds == {"throws", "notok", "malformed", "badjson"}

HolderLookupFailed == \E k \in HolderFailureKinds : Returned("holders", k)

(* C5 as stated: whenever the holder-count lookup has failed (non-success   *)
(* status, error thrown by fetch, or body that does not parse), holders is  *)
(* null, the handler goes on to the next stage, and the request ends with   *)
(* 200.                                                                     *)
C5_AsStated ==
    HolderLookupFailed =>
        /\ holders = Null
        /\ failed = ""
        /\ pc \in {"ai", "risk", "done"}
        /\ Done => /\ res.status = 200
                   /\ res.body.ok
                   /\ res.body.summary.holders = Null

\* the handler of a variant with a risk brief has reached it: the defaults
\* of the brief are set (server.mjs 303-305)
ReachedRiskStage ==
    /\ variant \in AddressVariants
    /\ ~IsNull(bestPair)
    /\ aiRiskText # <<>>

(* C6: without a generative-text credential every request that reaches the  *)
(* risk-brief stage ends with 200, aiRiskLevel "unknown" and the fixed      *)
(* missing-key notice, and no generative-text call is issued: until the     *)
(* response is sent the handler waits for nothing but the notice that       *)
(* generateRiskAnalysis has returned, and it can take it up.                *)
C6_NoClientNotice ==
    (ReachedRiskStage /\ ~openai) =>
        /\ ~Issued("ai")
        /\ pc \in {"risk", "done"}
        /\ pc = "risk" =>
              /\ riskRes = Some([riskLevel |-> Unknown, text |-> NoticeMissingKey])
              /\ ENABLED RiskResumes
        /\ Done =>
              /\ res.status = 200
              /\ res.body.aiRiskLevel = Unknown
              /\ res.body.aiRisk = NoticeMissingKey

\* such a request, answered
C6_Witness ==
    /\ ReachedRiskStage
    /\ ~openai
    /\ Done
    /\ res.status = 200
    /\ res.body.aiRisk = NoticeMissingKey

(* C7: with a credential configured, when the generative call throws the    *)
(* request ends with 200 and carries the "AI risk analysis unavailable"     *)
(* text with aiRiskLevel "unknown": until the response is sent the handler  *)
(* holds these defaults and waits for nothing but the rejected promise of   *)
(* generateRiskAnalysis, which it can take up.                              *)
C7_GeneratorFailureFallsBack ==
    Returned("ai", "throws") =>
        /\ openai
        /\ failed = ""
        /\ pc \in {"risk", "done"}
        /\ aiRiskLevel = Unknown
        /\ aiRiskText = NoticeUnavailable(variant)
        /\ pc = "risk" => (IsNull(riskRes) /\ ENABLED RiskResumes)
        /\ Done =>
              /\ res.status = 200
              /\ res.body.ok
              /\ res.body.aiRiskLevel = Unknown
              /\ res.body.aiRisk = NoticeUnavailable(variant)

\* a request answered after the generative call threw
C7_Witness ==
    /\ Returned("ai", "throws")
    /\ Done
    /\ res.status = 200

(* C8 as stated: whenever the page fetch or the market-data call fails      *)
(* (non-success status, error raised by fetch, unparseable body), the       *)
(* request ends with 502.                                                   *)
C8_AsStated ==
    (\E c \in {"page", "dex"}, k \in FailureKinds : Returned(c, k)) =>
        (Done /\ res.status = 502)

HardStages == {"validation", "page", "scrape", "market", "pairs", "internal"}

\* the call the failed stage was waiting for, none for the input checks
LastCallOf(stage) ==
    CASE stage = "validation" -> <<>>
      [] stage \in {"page", "scrape"} -> <<"page">>
      [] OTHER -> <<"dex">>

\* nothing was issued after the stage failed: every issued call has returned,
\* and the last one is the call of the failed stage
NoLaterStage ==
    /\ Len(calls) = Len(outcomes)
    /\ IF LastCallOf(failed) = <<>> THEN calls = <<>>
       ELSE calls # <<>> /\ calls[Len(calls)] = LastCallOf(failed)[1]
    /\ ~Issued("holders")
    /\ ~Issued("ai")
    /\ holders = Null
    /\ aiRiskText = <<>>

\* the report could not be put together after the holder-count stage
\* (failed = "report"): the request is answered with the internal error and
\* the risk brief is neither begun nor called for
ReportAborted ==
    /\ Done
    /\ sent = 1
    /\ Len(calls) = Len(outcomes)
    /\ ~Issued("ai")
    /\ aiRiskText = <<>>
    /\ res.status = 500
    /\ Keys(res.body) = {"error"}

(* C9 as stated: once a hard stage has failed, no later stage runs, no      *)
(* further external call is issued, and the response is an error response   *)
(* whose body carries an error string and no ok, summary or report field.   *)
C9_AsStated ==
    /\ failed \in HardStages =>
          /\ Done
          /\ sent = 1
          /\ NoLaterStage
          /\ res.status \in {400, 404, 500, 502}
          /\ Keys(res.body) = {"error"}
    /\ failed = "report" => ReportAborted

(* C9 amended: once a hard stage has failed, no later stage runs, no        *)
(* further external call is issued, and the response is an error response   *)
(* carrying an error string without ok or summary; its only other fields    *)
(* are tokenAddress and chainId, which the URL variant adds to the 404 it   *)
(* sends for an empty or non-array pairs body.                              *)
C9_FirstFailureAborts ==
    /\ failed \in HardStages =>
          /\ Done
          /\ sent = 1
          /\ NoLaterStage
          /\ res.status \in {400, 404, 500, 502}
          /\ "error" \in Keys(res.body)
          /\ "ok" \notin Keys(res.body)
          /\ "summary" \notin Keys(res.body)
          /\ IF variant = "part_001" /\ failed = "pairs"
             THEN Keys(res.body) = {"error", "tokenAddress", "chainId"}
             ELSE Keys(res.body) = {"error"}
    /\ failed = "report" => ReportAborted

\* a request aborted at the market-data stage, after the address was found
C9_Witness ==
    /\ failed \in {"market", "pairs"}
    /\ Done
    /\ Issued("dex")
    /\ res.status \in {404, 502}

----------------------------------------------------------------------------
(* The launchpad URL rule of the URL-accepting variant.                     *)

\* the text of the input parses as a URL of scheme https whose host is
\* anoncoin.it or one of its subdomains
SecureAnoncoinInput ==
    /\ hasToString(orEmpty(input))
    /\ \E accept \in TableVerdicts :
        Strict(parseUrl(trim(orEmpty(input).v), accept), LAMBDA u :
           /\ ~IsNull(u)
           /\ Val(u).protocol = SchemeHttps
           /\ \/ Val(u).hostname = AnoncoinHost
              \/ endsWith(Val(u).hostname, <<".">> \o AnoncoinHost))

(* C11 as stated: in the URL-accepting variant the launchpad page is        *)
(* fetched only for an https URL on anoncoin.it or a subdomain of it; every *)
(* other input ends with 400 and no page fetch.                             *)
C11_AsStated ==
    variant = "part_001" =>
        /\ Issued("page") => SecureAnoncoinInput
        /\ (~SecureAnoncoinInput /\ pc # "start") =>
              (Done /\ res.status = 400 /\ ~Issued("page"))

----------------------------------------------------------------------------
(* Social links of the best pair.  An entry is [platform, handle, url],     *)
(* each a string, <<>> when the field is absent or empty (both are falsy).  *)

\* the base URLs, each kept as a single symbol
TelegramBase == <<"https://t.me/">>

XBase == <<"https://x.com/">>

\* handle.startsWith("@") ? handle.slice(1) : handle
stripAt(handle) ==
    IF startsWith(handle, <<"@">>) THEN SubSeq(handle, 2, Len(handle)) ELSE handle

\* server.mjs buildTelegramUrl / buildXUrl on an option of an entry
buildUrl(base, socialObj) ==
    IF IsNull(socialObj) THEN <<>>
    ELSE IF Len(Val(socialObj).url) > 0 THEN Val(socialObj).url
    ELSE IF Len(Val(socialObj).handle) = 0 THEN <<>>
    ELSE base \o stripAt(Val(socialObj).handle)

RECURSIVE scanSocials(_, _, _, _)
\* server.mjs 242-250: the loop from entry i on, with the two picks made so far
scanSocials(socials, i, telegramSocial, xSocial) ==
    IF i > Len(socials) THEN [telegramSocial |-> telegramSocial, xSocial |-> xSocial]
    ELSE LET entry == socials[i]
             plat  == toLowerCase(entry.platform)
         IN  IF Len(entry.platform) = 0
             THEN scanSocials(socials, i + 1, telegramSocial, xSocial)
             ELSE IF IsNull(telegramSocial) /\ includes(plat, WordTelegram)
             THEN scanSocials(socials, i + 1, Some(entry), xSocial)
             ELSE IF IsNull(xSocial) /\ (includes(plat, WordTwitter) \/ includes(plat, WordX))
             THEN scanSocials(socials, i + 1, telegramSocial, Some(entry))
             ELSE scanSocials(socials, i + 1, telegramSocial, xSocial)

\* part_000 199-202, part_001 181-188: the first telegram entry's handle || url || null
telegramHandleOrUrl(socials) ==
    LET hits == { i \in 1..Len(socials) :
                    includes(toLowerCase(socials[i].platform), WordTelegram) }
    IN  IF hits = {} THEN <<>>
        ELSE LET entry == socials[MinOf(hits)] IN
             IF Len(entry.handle) > 0 THEN entry.handle ELSE entry.url

\* the links the response reports: [telegram, x]
linksOf(v, socials) ==
    IF v = "server"
    THEN LET picks == scanSocials(socials, 1, Null, Null) IN
         [telegram |-> buildUrl(TelegramBase, picks.telegramSocial),
          x        |-> buildUrl(XBase, picks.xSocial)]
    ELSE [telegram |-> telegramHandleOrUrl(socials), x |-> <<>>]

(* Driver of the social-link scan.                                          *)

\* longest socials array generated
MaxSocials == 2

SocialPlatforms ==
    { <<"T","e","l","e","g","r","a","m">>, WordTwitter, <<"X">>,
      <<"d","i","s","c","o","r","d">> }

SocialHandles == { <<>>, <<"@","d","o","g","e">>, <<"d","o","g","e">> }

SocialUrls == { <<>>, <<"https://t.me/dogechannel">> }

SocialEntries ==
    { [platform |-> p, handle |-> h, url |-> u] :
        p \in SocialPlatforms, h \in SocialHandles, u \in SocialUrls }

SocialArrays == UNION { [1..n -> SocialEntries] : n \in 0..MaxSocials }

InitSocials ==
    /\ IdleRequest
    /\ variant \in Variants
    /\ pc = "call"
    /\ arg \in SocialArrays
    /\ ret = Null

SocialsCall ==
    /\ pc = "call"
    /\ pc' = "return"
    /\ ret' = linksOf(variant, arg)
    /\ UNCHANGED <<variant, arg, requestVars>>

NextSocials == SocialsCall

SpecSocials == InitSocials /\ [][NextSocials]_vars

\* the link the claim expects for the first entry of socials whose platform
\* contains one of words: its url if present, else base + handle without a
\* leading "@", else null
ExpectedLink(socials, words, base) ==
    LET hits == { i \in 1..Len(socials) :
                    \E w \in words : includes(toLowerCase(socials[i].platform), w) }
    IN  IF hits = {} THEN <<>>
        ELSE LET entry == socials[MinOf(hits)] IN
             IF Len(entry.url) > 0 THEN entry.url
             ELSE IF Len(entry.handle) = 0 THEN <<>>
             ELSE base \o (IF entry.handle[1] = "@"
                           THEN SubSeq(entry.handle, 2, Len(entry.handle))
                           ELSE entry.handle)

(* C12 as stated: in every variant the reported Telegram link is the first  *)
(* telegram entry's url when present, otherwise https://t.me/ + the handle  *)
(* without one leading "@", null when neither is present; in the richer     *)
(* variant the same holds of the X link and the first twitter / x entry.    *)
C12_AsStated ==
    (pc = "return" /\ arg \in SocialArrays) =>
        /\ ret.telegram = ExpectedLink(arg, {WordTelegram}, TelegramBase)
        /\ variant = "server" =>
              ret.x = ExpectedLink(arg, {WordTwitter, WordX}, XBase)

\* the same statement of the richer variant alone
C12_ServerOnly == variant = "server" => C12_AsStated

----------------------------------------------------------------------------
(* Order of the external calls of one request.                              *)

CallOrder == <<"page", "dex", "holders", "ai">>

RankOf(call) == CHOOSE i \in 1..Len(CallOrder) : CallOrder[i] = call

\* the answer of the call has arrived, whatever it was
Answered(call) == \E i \in 1..Len(outcomes) : outcomes[i].call = call

(* C13: the external calls of a request are issued one after another in the *)
(* order page fetch (URL variant only), market data, holder count,          *)
(* generative text, each at most once; market data only after an address    *)
(* was obtained, holder count only after a non-empty pairs array arrived    *)
(* and only on chain "solana", generative text only after the market-data   *)
(* facts and the holder-count outcome are known.                            *)
C13_SequentialCalls ==
    /\ \A i, j \in 1..Len(calls) : i < j => RankOf(calls[i]) < RankOf(calls[j])
    /\ Len(calls) - Len(outcomes) \in {0, 1}
    /\ \A i \in 1..Len(outcomes) : outcomes[i].call = calls[i]
    /\ Issued("page") => variant = "part_001"
    /\ Issued("dex") =>
          /\ Len(tokenAddress) > 0
          /\ variant = "part_001" => Returned("page", "html")
    /\ Issued("holders") =>
          /\ Returned("dex", "json")
          /\ dsJson.isArray /\ Len(dsJson.items) > 0
          /\ chainId = "solana"
    /\ Issued("ai") =>
          /\ Returned("dex", "json")
          /\ ~IsNull(bestPair)
          /\ Answered("holders") \/ chainId # "solana"

C13_Witness ==
    /\ Done
    /\ calls = <<"dex", "holders", "ai">>
    /\ Len(outcomes) = 3

----------------------------------------------------------------------------
(* The chain of the suffix-enforcing variants.                              *)

\* the request got past the choice of the best pair and the reading of its
\* links, to the holder-count stage (server.mjs 255, part_000 204)
ReachedHolderStage ==
    /\ Returned("dex", "json")
    /\ ~noPairs(dsJson)
    /\ ~IsNull(bestPair)
    /\ ~socialsScanThrows(variant, Val(bestPair).socials)

(* C14: in the suffix-enforcing variants the chain is never "ethereum":     *)
(* every address that passes the extractor is not of EVM shape and has      *)
(* chain "solana", every market-data call uses chain "solana", and the      *)
(* holder-count lookup is attempted on every request that reaches it.       *)
C14_AlwaysSolana ==
    variant \in AddressVariants =>
        /\ chainId # "ethereum"
        /\ Issued("dex") =>
              /\ chainId = "solana"
              /\ ~(Len(tokenAddress) = EvmHexLen + 2 /\ EvmAt(tokenAddress, 1))
              /\ isAllowedSuffix(tokenAddress)
        /\ ReachedHolderStage => Issued("holders")

C14_Witness ==
    /\ variant \in AddressVariants
    /\ tokenAddress = AddressDub
    /\ ReachedHolderStage
    /\ Issued("holders")
    /\ chainId = "solana"

----------------------------------------------------------------------------
(* One response per request.                                                *)

ResponseStatuses == {200, 400, 404, 502, 500}

\* every external call issued has been answered
NothingPending == Len(calls) = Len(outcomes)

\* the handler waits for the promise of generateRiskAnalysis, already settled
AtSettledPromise == pc = "risk" /\ ENABLED RiskResumes

ExactlyOneResponse ==
    /\ sent \in {0, 1}
    /\ Done <=> sent = 1
    /\ Done => res.status \in ResponseStatuses
    /\ ~Done => res = NoResponse
    /\ (NothingPending /\ pc # "start") => (Done \/ AtSettledPromise)

\* the awaits still ahead of a request, at most
StepsLeft ==
    CASE pc = "start"       -> 9
      [] pc = "page"        -> 8
      [] pc = "pageBody"    -> 7
      [] pc = "pageErrBody" -> 7
      [] pc = "dex"         -> 6
      [] pc = "dexBody"     -> 5
      [] pc = "dexErrBody"  -> 5
      [] pc = "holders"     -> 4
      [] pc = "holdersBody" -> 3
      [] pc = "ai"          -> 2
      [] pc = "risk"        -> 1
      [] pc = "done"        -> 0

\* an await is taken up again whatever its outcome: each settlement the
\* fetch in flight can have, each body of an answer (of a page read from a
\* data: URL the one body it has; of the generator's answers, the rejection
\* and the answer without content stand for all)
EveryOutcomeHandled ==
    /\ pc = "page" => \A k \in pageSettlements(pageFetch) : ENABLED PageSettles(k)
    /\ pc = "pageErrBody" => ENABLED PageErrBodyArrives
    /\ pc = "pageBody" =>
          IF pageFetch.kind = "data"
          THEN ENABLED PageBodyArrives([kind |-> "html", html |-> pageFetch.body])
          ELSE ENABLED PageBodyArrives([kind |-> "malformed", html |-> <<>>])
    /\ pc = "dex" => \A k \in Settlements : ENABLED DexSettles(k)
    /\ pc = "dexErrBody" => ENABLED DexErrBodyArrives
    /\ pc = "dexBody" => \A o \in DexBodies : ENABLED DexBodyArrives(o)
    /\ pc = "holders" => \A k \in Settlements : ENABLED HoldersSettle(k)
    /\ pc = "holdersBody" => \A o \in HolderBodies : ENABLED HoldersBodyArrives(o)
    /\ pc = "ai" => \A o \in { a \in AiOutcomes : IsNull(a.content) } : ENABLED AiReturns(o)
    /\ pc = "risk" => ENABLED RiskResumes

(* C15: every request, whatever the input and the outcomes of the external  *)
(* calls, eventually ends with exactly one response, of status 200, 400,    *)
(* 404, 502 or 500; none sends two responses and none is left unanswered    *)
(* once every pending external call has returned.  Eventually: every step   *)
(* of the handler brings the response closer, every outcome of an await is  *)
(* handled, and the handler never rests without a pending call other than   *)
(* at a promise that is already settled.                                    *)
C15_OneResponse ==
    /\ []ExactlyOneResponse
    /\ []EveryOutcomeHandled
    /\ [][StepsLeft' < StepsLeft]_vars

C15_Witness ==
    /\ Done
    /\ sent = 1
    /\ res.status = 500
    /\ Returned("dex", "malformed")

====
